---------------------------- MODULE Spec2Model ----------------------------
(***************************************************************************)
(* Classical support code of the qsfe repository: the modular arithmetic   *)
(* used by Shor's algorithm (extended gcd, modular inverse, continued      *)
(* fraction convergents, the period-finding loop and the factoring loop)   *)
(* and the GF(2) linear algebra used by Simon's algorithm (Gaussian        *)
(* elimination, independence test, basis completion, back substitution     *)
(* and the secret-recovery loop).                                          *)
(*                                                                         *)
(* Conventions.  Python lists are modelled as TLA+ sequences, so an index  *)
(* i of the source is index i + 1 here.  Python integers are unbounded;    *)
(* every bound below keeps all intermediate values far under 2^31.  A      *)
(* function that can raise returns a record [status, val]; status "ok"     *)
(* carries the value, any other status names the exception raised.         *)
(***************************************************************************)
EXTENDS Integers, Sequences, FiniteSets, TLC

VARIABLES
    pc,             \* position of the running driver or harness
    fn,             \* harness: name of the library function that was called
    args,           \* harness: the arguments of that call
    ret,            \* what the call or the driver returned, [status, val]
    valid_inputs,   \* the GF(2) matrix: a list of equal-length bit rows
    before,         \* the matrix as it was when the last call on it began
    candidate,      \* the row handed to the last check_linear_independence
    input_size,     \* Simon: number of bits of the function's registers
    secret,         \* Simon: the string S hidden in the black-box function
    extra_rounds,   \* Simon: ceil(log2(1 / (1 - desired_success_chance)))
    i,              \* Simon: number of loop iterations started so far
    right_hand_side,\* Simon: the vector complete_matrix returned
    secret_string,  \* Simon: the vector solve_matrix returned
    number_to_factor,   \* Shor: the number being factored (the modulus)
    guess,              \* Shor: the base of the modular exponentiation
    period,             \* Shor: the period candidate of the period finder
    remainder,          \* Shor: guess^period mod number_to_factor, 0 at first
    number_of_zero_measurements,    \* Shor: zero measurements counted so far
    zero_run,           \* history: zero measurements in a row up to the latest
    zero_total,         \* history: zero measurements since the finder began
    factors,            \* Shor: the pair run_shor returned, <<>> before that
    ancilla_cache,      \* circuit: the dictionary from purpose name to register
    allocations,        \* history: the key each new register was stored under
    input_bits,         \* circuit: the basis state of the input register
    output,             \* circuit: the value of the output register
    output_length       \* circuit: number of qubits of the output register

mathVars == <<fn, args, ret>>
matrixVars == <<valid_inputs, before, candidate>>
simonVars == <<input_size, secret, extra_rounds, i, right_hand_side,
               secret_string>>
shorVars == <<number_to_factor, guess, period, remainder,
              number_of_zero_measurements, zero_run, zero_total, factors>>
circuitVars == <<ancilla_cache, allocations, input_bits, output,
                 output_length>>
vars == <<pc, fn, args, ret, valid_inputs, before, candidate,
          input_size, secret, extra_rounds, i, right_hand_side,
          secret_string, number_to_factor, guess, period, remainder,
          number_of_zero_measurements, zero_run, zero_total, factors,
          ancilla_cache, allocations, input_bits, output, output_length>>

(***************************************************************************)
(* Bounds of the model.                                                    *)
(***************************************************************************)
\* extended_gcd and inverse_mod are called with arguments in -MaxArg..MaxArg
MaxArg == 7
\* fractions p/q handed to find_continued_fraction_convergent: p, q <= MaxFrac
MaxFrac == 16
\* thresholds handed to find_continued_fraction_convergent: 0..MaxThreshold
MaxThreshold == 9
\* matrices handed to convert_to_reduced_row_echelon_form: 1..MaxRows rows
MaxRows == 3
\* ... of 1..MaxCols bits each
MaxCols == 3
\* bit strings handed to check_linear_independence and measured by Simon's
\* quantum step: 1..MaxBits (Simon: 2..MaxBits) bits
MaxBits == 3
\* Simon's driver runs with 2..MaxExtraRounds extra rounds
MaxExtraRounds == 3
\* the period finder is run on numbers 2..MaxNumberToFactor
MaxNumberToFactor == 15
\* run_shor is run on numbers 2..MaxShorNumber
MaxShorNumber == 45
\* run_shor with the period finder on ideal measurements is run on numbers
\* 2..MaxIdealNumber
MaxIdealNumber == 21
\* modular_exponentiation is run with moduli 2..MaxExpModulus, bases
\* 0..MaxBase, input registers of 1..MaxInputSize qubits and output
\* registers of 1..MaxOutputLength qubits
MaxExpModulus == 9
MaxBase == 10
MaxInputSize == 4
MaxOutputLength == 4
\* moduli and constants handed to the circuit helpers
MaxModulus == 5
\* qubits of a register handed to the circuit helpers
MaxRegister == 3
\* registers created in one construction pass
MaxPlaceholders == 5
\* the period finder with a fair measurement oracle is run on numbers
\* 2..MaxFairNumber
MaxFairNumber == 21
\* periods the period finder hands to run_shor: -1 and 1..MaxPeriod
MaxPeriod == 12

(***************************************************************************)
(* Constants of the program.                                               *)
(***************************************************************************)
\* shor.py, `if number_of_zero_measurements == 3`
ZeroMeasurementLimit == 3

(***************************************************************************)
(* Results of functions that can raise.                                    *)
(***************************************************************************)
Ok(v) == [status |-> "ok", val |-> v]
Raise(e) == [status |-> e, val |-> <<>>]
NoResult == [status |-> "none", val |-> <<>>]

\* abs(x)
Abs(x) == IF x < 0 THEN 0 - x ELSE x

(***************************************************************************)
(* shor_math.py: classical math functions.                                 *)
(***************************************************************************)
RECURSIVE gcd_recursion(_, _, _, _, _)
gcd_recursion(sign_a, sign_b, r, s, t) ==
    IF r[2] = 0
    THEN <<s[1] * sign_a, t[1] * sign_b>>
    ELSE LET quotient == r[1] \div r[2]
             r_ == <<r[2], r[1] - quotient * r[2]>>
             s_ == <<s[2], s[1] - quotient * s[2]>>
             t_ == <<t[2], t[1] - quotient * t[2]>>
         IN  gcd_recursion(sign_a, sign_b, r_, s_, t_)

sign(value) ==
    IF value < 0 THEN -1 ELSE IF value = 0 THEN 0 ELSE 1

\* Mutant of extended_gcd: the signs are dropped before the recursion but
\* not restored in the result.
extended_gcd_unsigned(a, b) ==
    gcd_recursion(1, 1, <<a * sign(a), b * sign(b)>>, <<1, 0>>, <<0, 1>>)

extended_gcd(a, b) ==
    LET sign_a == sign(a)
        sign_b == sign(b)
        s == <<1, 0>>
        t == <<0, 1>>
        r == <<a * sign_a, b * sign_b>>
    IN  gcd_recursion(sign_a, sign_b, r, s, t)

\* Mutant of get_modulus_residue: the residue of the magnitude of the value.
get_modulus_residue_of_magnitude(value, modulus) ==
    IF modulus <= 0
    THEN Raise("ValueError: modulus must be positive")
    ELSE LET r == Abs(value) % modulus
         IN  IF r < 0 THEN Ok(r + modulus) ELSE Ok(r)

\* value % modulus of Python, for modulus > 0, is the residue in 0..modulus-1,
\* which is what % of Integers yields, negative values included.
get_modulus_residue(value, modulus) ==
    IF modulus <= 0
    THEN Raise("ValueError: modulus must be positive")
    ELSE LET r == value % modulus
         IN  IF r < 0 THEN Ok(r + modulus) ELSE Ok(r)

\* Mutant of inverse_mod: the residue of the wrong Bezout coefficient.
inverse_mod_of_v(a, modulus) ==
    LET uv == extended_gcd(a, modulus)
    IN  IF uv[1] * a + uv[2] * modulus # 1
        THEN Raise("ValueError: must be co-prime")
        ELSE get_modulus_residue(uv[2], modulus)

\* Mutant of inverse_mod: the co-prime test is left out.
inverse_mod_unchecked(a, modulus) ==
    LET uv == extended_gcd(a, modulus)
    IN  get_modulus_residue(uv[1], modulus)

inverse_mod(a, modulus) ==
    LET uv == extended_gcd(a, modulus)
        u == uv[1]
        v == uv[2]
        gcd == u * a + v * modulus
    IN  IF gcd # 1
        THEN Raise("ValueError: must be co-prime")
        ELSE get_modulus_residue(u, modulus)

(***************************************************************************)
(* shor.py: find_continued_fraction_convergent.  One unfolding of          *)
(* cf_loop is one iteration of the source's `while True`; its parameters   *)
(* are the loop-carried variables P_i, Q_i, n_(i-1), n_(i-2), d_(i-1),     *)
(* d_(i-2).                                                                *)
(***************************************************************************)
RECURSIVE cf_loop(_, _, _, _, _, _, _)
cf_loop(cc_numerator, cc_denominator, n_1_before, n_2_before, d_1_before, d_2_before, denominator_threshold) ==
    LET coefficient == cc_numerator \div cc_denominator
        convergent_numerator == coefficient * n_1_before + n_2_before
        convergent_denominator == coefficient * d_1_before + d_2_before
        cc_remainder == cc_numerator % cc_denominator
    IN  IF convergent_denominator > denominator_threshold \/ cc_remainder = 0
        THEN IF convergent_denominator > denominator_threshold
             THEN <<n_1_before, d_1_before>>
             ELSE <<convergent_numerator, convergent_denominator>>
        ELSE cf_loop(cc_denominator, cc_remainder,
                     convergent_numerator, n_1_before,
                     convergent_denominator, d_1_before,
                     denominator_threshold)

\* Mutant of find_continued_fraction_convergent: on reaching the threshold
\* the current convergent is returned instead of the previous one.
RECURSIVE cf_loop_keeps_current(_, _, _, _, _, _, _)
cf_loop_keeps_current(cc_numerator, cc_denominator, n_1_before, n_2_before, d_1_before, d_2_before, denominator_threshold) ==
    LET coefficient == cc_numerator \div cc_denominator
        convergent_numerator == coefficient * n_1_before + n_2_before
        convergent_denominator == coefficient * d_1_before + d_2_before
        cc_remainder == cc_numerator % cc_denominator
    IN  IF convergent_denominator > denominator_threshold \/ cc_remainder = 0
        THEN <<convergent_numerator, convergent_denominator>>
        ELSE cf_loop_keeps_current(cc_denominator, cc_remainder,
                                   convergent_numerator, n_1_before,
                                   convergent_denominator, d_1_before,
                                   denominator_threshold)

convergent_keeps_current(numerator, denominator, denominator_threshold) ==
    cf_loop_keeps_current(numerator, denominator, 1, 0, 0, 1,
                          denominator_threshold)

\* Mutant of find_continued_fraction_convergent: when the expansion ends
\* within the threshold, the fraction is returned as it was given instead
\* of as the last convergent.
convergent_as_given_when_exact(numerator, denominator, denominator_threshold) ==
    LET last == cf_loop(numerator, denominator, 1, 0, 0, 1,
                        denominator_threshold)
    IN  IF last[1] * denominator = last[2] * numerator
        THEN <<numerator, denominator>>
        ELSE last

find_continued_fraction_convergent(numerator, denominator, denominator_threshold) ==
    cf_loop(numerator, denominator, 1, 0, 0, 1, denominator_threshold)

(***************************************************************************)
(* matrix_math.py: mod-2 Gaussian elimination.  A matrix is a sequence of  *)
(* rows, a row a sequence of BOOLEAN.  The source mutates the matrix and   *)
(* its rows in place; every operator returns the matrix as the call leaves *)
(* it.  The rows of one matrix are distinct list objects (each comes from  *)
(* its own measurement), so no row aliases another.                        *)
(***************************************************************************)
BitStrings(n) == [1..n -> BOOLEAN]

Matrices(h, w) == [1..h -> BitStrings(w)]

\* The 1-based index of the first row from start_row on with a 1 in the
\* column, or -1.
find_pivot_row(matrix, column, start_row) ==
    LET rows == {r \in start_row..Len(matrix) : matrix[r][column]}
    IN  IF rows = {} THEN -1
        ELSE CHOOSE r \in rows : \A r2 \in rows : r <= r2

swap_rows(matrix, first_row_index, second_row_index) ==
    [matrix EXCEPT ![first_row_index] = matrix[second_row_index],
                   ![second_row_index] = matrix[first_row_index]]

\* Mutant of reduce_rows: the column loop starts one column too late, so the
\* pivot column itself is not cleared.
reduce_rows_from_next_column(matrix, source_row_index, start_column) ==
    LET source_row == matrix[source_row_index]
    IN  [row \in 1..Len(matrix) |->
            IF row > source_row_index /\ matrix[row][start_column]
            THEN [column \in 1..Len(source_row) |->
                     IF column > start_column
                     THEN matrix[row][column] # source_row[column]
                     ELSE matrix[row][column]]
            ELSE matrix[row]]

\* Mutant of reduce_rows: every trailing row is XORed with the source row,
\* whether or not it has a 1 in the target column.
reduce_rows_unconditionally(matrix, source_row_index, start_column) ==
    LET source_row == matrix[source_row_index]
    IN  [row \in 1..Len(matrix) |->
            IF row > source_row_index
            THEN [column \in 1..Len(source_row) |->
                     IF column >= start_column
                     THEN matrix[row][column] # source_row[column]
                     ELSE matrix[row][column]]
            ELSE matrix[row]]

\* target_row[column] ^= source_row[column] is the inequality of two bits.
reduce_rows(matrix, source_row_index, start_column) ==
    LET source_row == matrix[source_row_index]
    IN  [row \in 1..Len(matrix) |->
            IF row > source_row_index /\ matrix[row][start_column]
            THEN [column \in 1..Len(source_row) |->
                     IF column >= start_column
                     THEN matrix[row][column] # source_row[column]
                     ELSE matrix[row][column]]
            ELSE matrix[row]]

\* One unfolding is one iteration of `for column_index in range(0, width)`;
\* current_row is 1-based, so the source's `current_row == height` after
\* the increment reads current_row + 1 > height here.
RECURSIVE rref_loop(_, _, _)
rref_loop(matrix, column_index, current_row) ==
    LET height == Len(matrix)
        width == Len(matrix[1])
    IN  IF column_index > width
        THEN matrix
        ELSE LET pivot_row == find_pivot_row(matrix, column_index, current_row)
             IN  IF pivot_row = -1
                 THEN rref_loop(matrix, column_index + 1, current_row)
                 ELSE LET swapped == IF pivot_row > current_row
                                     THEN swap_rows(matrix, pivot_row, current_row)
                                     ELSE matrix
                          reduced == reduce_rows(swapped, current_row, column_index)
                      IN  IF current_row + 1 > height
                          THEN reduced
                          ELSE rref_loop(reduced, column_index + 1, current_row + 1)

convert_to_reduced_row_echelon_form(matrix) ==
    rref_loop(matrix, 1, 1)

\* Mutant of check_linear_independence: the Gaussian elimination is left out.
check_linear_independence_unreduced(candidate_row, matrix) ==
    LET appended == Append(matrix, candidate_row)
        is_linearly_independent == \E c \in 1..Len(candidate_row) : candidate_row[c]
    IN  [result |-> is_linearly_independent,
         matrix |-> IF is_linearly_independent THEN appended ELSE matrix]

\* Mutant of check_linear_independence: a candidate that is not linearly
\* independent is not discarded.
check_linear_independence_never_pops(candidate_row, matrix) ==
    LET appended == Append(matrix, candidate_row)
        reduced == convert_to_reduced_row_echelon_form(appended)
        last_row == reduced[Len(reduced)]
        is_linearly_independent == \E c \in 1..Len(last_row) : last_row[c]
    IN  [result |-> is_linearly_independent, matrix |-> reduced]

\* Mutant of check_linear_independence: the candidate is tested on a copy,
\* and the matrix keeps an accepted candidate as it was appended.
check_linear_independence_on_copy(candidate_row, matrix) ==
    LET appended == Append(matrix, candidate_row)
        reduced == convert_to_reduced_row_echelon_form(appended)
        last_row == reduced[Len(reduced)]
        is_linearly_independent == \E c \in 1..Len(last_row) : last_row[c]
    IN  [result |-> is_linearly_independent,
         matrix |-> IF is_linearly_independent THEN appended ELSE matrix]

\* Returns the value returned and the matrix as the call leaves it.
check_linear_independence(candidate_row, matrix) ==
    LET appended == Append(matrix, candidate_row)
        reduced == convert_to_reduced_row_echelon_form(appended)
        last_row == reduced[Len(reduced)]
        is_linearly_independent == \E c \in 1..Len(last_row) : last_row[c]
    IN  [result |-> is_linearly_independent,
         matrix |-> IF is_linearly_independent
                    THEN reduced
                    ELSE SubSeq(reduced, 1, Len(reduced) - 1)]

\* Mutant of complete_matrix: the missing row is always added at the bottom.
complete_matrix_at_bottom(matrix) ==
    LET missing_row == [c \in 1..Len(matrix[1]) |-> c = Len(matrix) + 1]
    IN  [right_hand_side |-> missing_row,
         matrix |-> Append(matrix, missing_row)]

\* Mutant of complete_matrix: the walk over the diagonal does not stop at
\* the first 0, so the last row with a 0 on the diagonal is taken.
complete_matrix_without_break(matrix) ==
    LET zero_diagonals == {r \in 1..Len(matrix) : ~ matrix[r][r]}
        missing_row_index ==
            IF zero_diagonals = {} THEN Len(matrix) + 1
            ELSE CHOOSE r \in zero_diagonals : \A r2 \in zero_diagonals : r >= r2
        missing_row == [c \in 1..Len(matrix[1]) |-> c = missing_row_index]
    IN  [right_hand_side |-> missing_row,
         matrix |-> SubSeq(matrix, 1, missing_row_index - 1)
                    \o <<missing_row>>
                    \o SubSeq(matrix, missing_row_index, Len(matrix))]

\* Returns the right-hand side and the matrix with the missing row inserted.
\* missing_row_index is 1-based: Len(matrix) + 1 is "past the bottom".
complete_matrix(matrix) ==
    LET zero_diagonals == {r \in 1..Len(matrix) : ~ matrix[r][r]}
        missing_row_index ==
            IF zero_diagonals = {} THEN Len(matrix) + 1
            ELSE CHOOSE r \in zero_diagonals : \A r2 \in zero_diagonals : r <= r2
        missing_row == [c \in 1..Len(matrix[1]) |-> c = missing_row_index]
    IN  [right_hand_side |-> missing_row,
         matrix |-> SubSeq(matrix, 1, missing_row_index - 1)
                    \o <<missing_row>>
                    \o SubSeq(matrix, missing_row_index, Len(matrix))]

\* Mutant of solve_row: the solved values of all later columns are XORed
\* in, whether or not the row has a 1 in the column.
RECURSIVE solve_row_every_column(_, _, _, _)
solve_row_every_column(row, solution, column_index, value) ==
    IF column_index > Len(row)
    THEN value
    ELSE solve_row_every_column(row, solution, column_index + 1,
                                value # solution[column_index])

\* (solution is the source's secret_string, rhs its right_hand_side.)
\* The XOR of solution[column] over the columns after row_index in
\* which the row has a 1, folded into value from column_index on.
RECURSIVE solve_row(_, _, _, _)
solve_row(row, solution, column_index, value) ==
    IF column_index > Len(row)
    THEN value
    ELSE solve_row(row, solution, column_index + 1,
                   IF row[column_index]
                   THEN value # solution[column_index]
                   ELSE value)

\* One unfolding is one iteration of the bottom-up loop over the rows.
RECURSIVE solve_loop(_, _, _, _)
solve_loop(matrix, rhs, solution, row_index) ==
    IF row_index < 1
    THEN solution
    ELSE LET right_hand_side_value ==
                 solve_row(matrix[row_index], solution, row_index + 1,
                           rhs[row_index])
         IN  solve_loop(matrix, rhs,
                        [solution EXCEPT ![row_index] = right_hand_side_value],
                        row_index - 1)

solve_matrix(matrix, rhs) ==
    solve_loop(matrix, rhs,
               [c \in 1..Len(matrix) |-> FALSE], Len(matrix))

(***************************************************************************)
(* Harness for the pure library functions: one call, with its arguments    *)
(* drawn from the bounded sets, and its result recorded.                   *)
(***************************************************************************)
ArgRange == (0 - MaxArg)..MaxArg

\* The state of the parts a specification does not use.
NoMatrix ==
    /\ valid_inputs = <<>>
    /\ before = <<>>
    /\ candidate = <<>>

NoSimon ==
    /\ input_size = 0
    /\ secret = <<>>
    /\ extra_rounds = 0
    /\ i = 0
    /\ right_hand_side = <<>>
    /\ secret_string = <<>>

NoCircuit ==
    /\ ancilla_cache = <<>>
    /\ allocations = <<>>
    /\ input_bits = <<>>
    /\ output = 0
    /\ output_length = 0

NoShor ==
    /\ number_to_factor = 0
    /\ guess = 0
    /\ period = 0
    /\ remainder = 0
    /\ number_of_zero_measurements = 0
    /\ zero_run = 0
    /\ zero_total = 0
    /\ factors = <<>>

InitMath ==
    /\ pc = "idle"
    /\ NoCircuit
    /\ fn = "none"
    /\ args = <<>>
    /\ ret = NoResult
    /\ NoMatrix
    /\ NoSimon
    /\ NoShor

CallExtendedGcd ==
    /\ pc = "idle"
    /\ \E a \in ArgRange, b \in ArgRange :
          /\ fn' = "extended_gcd"
          /\ args' = <<a, b>>
          /\ ret' = Ok(extended_gcd(a, b))
    /\ pc' = "returned"
    /\ UNCHANGED <<circuitVars, matrixVars, simonVars, shorVars>>

CallInverseMod ==
    /\ pc = "idle"
    /\ \E a \in ArgRange, modulus \in ArgRange :
          /\ fn' = "inverse_mod"
          /\ args' = <<a, modulus>>
          /\ ret' = inverse_mod(a, modulus)
    /\ pc' = "returned"
    /\ UNCHANGED <<circuitVars, matrixVars, simonVars, shorVars>>

CallConvergent ==
    /\ pc = "idle"
    /\ \E p \in 0..MaxFrac, q \in 1..MaxFrac, threshold \in 0..MaxThreshold :
          /\ fn' = "find_continued_fraction_convergent"
          /\ args' = <<p, q, threshold>>
          /\ ret' = Ok(find_continued_fraction_convergent(p, q, threshold))
    /\ pc' = "returned"
    /\ UNCHANGED <<circuitVars, matrixVars, simonVars, shorVars>>

CallGetModulusResidue ==
    /\ pc = "idle"
    /\ \E value \in ArgRange, modulus \in ArgRange :
          /\ fn' = "get_modulus_residue"
          /\ args' = <<value, modulus>>
          /\ ret' = get_modulus_residue(value, modulus)
    /\ pc' = "returned"
    /\ UNCHANGED <<circuitVars, matrixVars, simonVars, shorVars>>

NextMath ==
    \/ CallExtendedGcd
    \/ CallInverseMod
    \/ CallConvergent
    \/ CallGetModulusResidue

SpecMath == InitMath /\ [][NextMath]_vars

(***************************************************************************)
(* Harness for the matrix functions.  From the idle state either           *)
(* convert_to_reduced_row_echelon_form is run on an arbitrary non-empty    *)
(* matrix, and then once more on its own result, or solve_matrix is run    *)
(* on a unit upper-triangular system, or a matrix is built from the empty  *)
(* list by check_linear_independence calls alone, each with an arbitrary   *)
(* candidate of input_size bits, and handed to complete_matrix once it     *)
(* has input_size - 1 rows.                                                *)
(***************************************************************************)
InitMatrix ==
    /\ pc = "idle"
    /\ NoCircuit
    /\ fn = "none"
    /\ args = <<>>
    /\ ret = NoResult
    /\ NoMatrix
    /\ input_size \in 1..MaxBits
    /\ secret = <<>>
    /\ extra_rounds = 0
    /\ i = 0
    /\ right_hand_side = <<>>
    /\ secret_string = <<>>
    /\ NoShor

CallConvert ==
    /\ pc = "idle"
    /\ \E h \in 1..MaxRows, w \in 1..MaxCols :
          \E matrix \in Matrices(h, w) :
             /\ args' = <<matrix>>
             /\ before' = matrix
             /\ valid_inputs' = convert_to_reduced_row_echelon_form(matrix)
    /\ fn' = "convert_to_reduced_row_echelon_form"
    /\ pc' = "reduced"
    /\ UNCHANGED <<circuitVars, ret, candidate, simonVars, shorVars>>

CallConvertAgain ==
    /\ pc = "reduced"
    /\ before' = valid_inputs
    /\ valid_inputs' = convert_to_reduced_row_echelon_form(valid_inputs)
    /\ pc' = "reduced_again"
    /\ UNCHANGED <<circuitVars, fn, args, ret, candidate, simonVars, shorVars>>

CallCheckLinearIndependence ==
    /\ pc \in {"idle", "collecting"}
    /\ \E candidate_row \in BitStrings(input_size) :
          LET call == check_linear_independence(candidate_row, valid_inputs)
          IN  /\ candidate' = candidate_row
              /\ before' = valid_inputs
              /\ valid_inputs' = call.matrix
              /\ ret' = Ok(call.result)
    /\ fn' = "check_linear_independence"
    /\ pc' = "collecting"
    /\ UNCHANGED <<circuitVars, args, simonVars, shorVars>>

\* The matrices solve_matrix is meant for: size x size, 1 on the diagonal
\* and 0 below it, as complete_matrix leaves them.
SolvableMatrices(size) ==
    {matrix \in Matrices(size, size) :
        \A r \in 1..size : /\ matrix[r][r]
                           /\ \A c \in 1..(r - 1) : ~ matrix[r][c]}

\* solve_matrix on such a matrix and an arbitrary right-hand side.  The
\* function assigns to no element of either argument.
CallSolveMatrix ==
    /\ pc = "idle"
    /\ \E size \in 1..MaxRows :
          \E matrix \in SolvableMatrices(size), rhs \in BitStrings(size) :
             /\ args' = <<matrix, rhs>>
             /\ before' = matrix
             /\ valid_inputs' = matrix
             /\ right_hand_side' = rhs
             /\ secret_string' = solve_matrix(matrix, rhs)
             /\ ret' = Ok(solve_matrix(matrix, rhs))
    /\ fn' = "solve_matrix"
    /\ pc' = "solved"
    /\ UNCHANGED <<circuitVars, candidate, input_size, secret, extra_rounds, i, shorVars>>

\* complete_matrix on a matrix check_linear_independence calls have brought
\* to input_size - 1 rows.
CallCompleteMatrix ==
    /\ pc = "collecting"
    /\ Len(valid_inputs) >= 1
    /\ Len(valid_inputs) = input_size - 1
    /\ LET call == complete_matrix(valid_inputs)
       IN  /\ before' = valid_inputs
           /\ valid_inputs' = call.matrix
           /\ right_hand_side' = call.right_hand_side
           /\ ret' = Ok(call.right_hand_side)
    /\ fn' = "complete_matrix"
    /\ pc' = "completed"
    /\ UNCHANGED <<circuitVars, args, candidate, input_size, secret, extra_rounds, i,
                   secret_string, shorVars>>

NextMatrix ==
    \/ CallConvert
    \/ CallConvertAgain
    \/ CallCheckLinearIndependence
    \/ CallCompleteMatrix
    \/ CallSolveMatrix

SpecMatrix == InitMatrix /\ [][NextMatrix]_vars

(***************************************************************************)
(* simon_tests.py: SimonTests.run_test, the classical part of Simon's      *)
(* algorithm.  The black-box function is represented by the string S it    *)
(* hides: f(x) = f(y) exactly when y = x or y = x XOR S (S all-zero: f is  *)
(* one-to-one, as the identity is).  simon_quantum_step returns some x     *)
(* with (x . S) mod 2 = 0; which one is the simulator's choice.            *)
(* desired_success_chance lies strictly between 0.5 and 1, so              *)
(* extra_rounds = ceil(log2(1 / (1 - chance))) is at least 2.              *)
(***************************************************************************)
Xor(x, y) == [c \in 1..Len(x) |-> x[c] # y[c]]

\* (x . S) mod 2 = 0
Orthogonal(x, s) ==
    Cardinality({c \in 1..Len(x) : x[c] /\ s[c]}) % 2 = 0

\* run_function_in_classical_mode(function, x) ==
\* run_function_in_classical_mode(function, y)
SameOutput(x, y) == y = x \/ y = Xor(x, secret)

\* q_math.left_shift by 1 on classical bits: output[j - 1] = input[j].
left_shift_by_1(input) ==
    [c \in 1..Len(input) |-> IF c < Len(input) THEN input[c + 1] ELSE FALSE]

InitSimon ==
    /\ pc = "loop"
    /\ NoCircuit
    /\ fn = "none"
    /\ args = <<>>
    /\ ret = NoResult
    /\ NoMatrix
    /\ input_size \in 2..MaxBits
    /\ secret \in BitStrings(input_size)
    /\ extra_rounds \in 2..MaxExtraRounds
    /\ i = 0
    /\ right_hand_side = <<>>
    /\ secret_string = <<>>
    /\ NoShor

\* Mutant of SimonIteration: the loop is left as soon as a string has been
\* accepted, however many strings are held.
SimonIterationBreaksOnAccept ==
    /\ pc = "loop"
    /\ i < input_size + extra_rounds
    /\ \E input_string \in BitStrings(input_size) :
          /\ Orthogonal(input_string, secret)
          /\ LET call == check_linear_independence(input_string, valid_inputs)
             IN  /\ candidate' = input_string
                 /\ before' = valid_inputs
                 /\ valid_inputs' = call.matrix
                 /\ pc' = IF call.result THEN "found" ELSE "loop"
    /\ i' = i + 1
    /\ UNCHANGED <<circuitVars, mathVars, input_size, secret, extra_rounds,
                   right_hand_side, secret_string, shorVars>>

\* Mutant of SimonIteration: the loop never breaks, it goes on measuring
\* until the iterations run out.
SimonIterationNeverBreaks ==
    /\ pc = "loop"
    /\ i < input_size + extra_rounds
    /\ \E input_string \in BitStrings(input_size) :
          /\ Orthogonal(input_string, secret)
          /\ LET call == check_linear_independence(input_string, valid_inputs)
             IN  /\ candidate' = input_string
                 /\ before' = valid_inputs
                 /\ valid_inputs' = call.matrix
                 /\ pc' = "loop"
    /\ i' = i + 1
    /\ UNCHANGED <<circuitVars, mathVars, input_size, secret, extra_rounds,
                   right_hand_side, secret_string, shorVars>>

\* One iteration of the for loop: a measurement, the independence check,
\* and the break once input_size - 1 strings are held.
SimonIteration ==
    /\ pc = "loop"
    /\ i < input_size + extra_rounds
    /\ \E input_string \in BitStrings(input_size) :
          /\ Orthogonal(input_string, secret)
          /\ LET call == check_linear_independence(input_string, valid_inputs)
             IN  /\ candidate' = input_string
                 /\ before' = valid_inputs
                 /\ valid_inputs' = call.matrix
                 /\ pc' = IF Len(call.matrix) = input_size - 1
                          THEN "found"
                          ELSE "loop"
    /\ i' = i + 1
    /\ UNCHANGED <<circuitVars, mathVars, input_size, secret, extra_rounds,
                   right_hand_side, secret_string, shorVars>>

\* The loop ran out of iterations: self.fail raises.
SimonFail ==
    /\ pc = "loop"
    /\ i = input_size + extra_rounds
    /\ ret' = Raise("AssertionError: Didn't find enough independent inputs")
    /\ pc' = "failed"
    /\ UNCHANGED <<circuitVars, fn, args, matrixVars, simonVars, shorVars>>

\* Mutant of SimonSolve: the solution is returned without comparing the
\* function's outputs.
SimonSolveUnvalidated ==
    /\ pc = "found"
    /\ LET completed == complete_matrix(valid_inputs)
           solution == solve_matrix(completed.matrix, completed.right_hand_side)
       IN  /\ before' = valid_inputs
           /\ valid_inputs' = completed.matrix
           /\ right_hand_side' = completed.right_hand_side
           /\ secret_string' = solution
           /\ ret' = Ok(solution)
    /\ pc' = "done"
    /\ UNCHANGED <<circuitVars, fn, args, candidate, input_size, secret, extra_rounds, i,
                   shorVars>>

\* After the break: complete_matrix, solve_matrix, and the comparison of
\* the function's outputs for all zeros and for the solution.
SimonSolve ==
    /\ pc = "found"
    /\ LET completed == complete_matrix(valid_inputs)
           solution == solve_matrix(completed.matrix, completed.right_hand_side)
           zeros == [c \in 1..input_size |-> FALSE]
       IN  /\ before' = valid_inputs
           /\ valid_inputs' = completed.matrix
           /\ right_hand_side' = completed.right_hand_side
           /\ secret_string' = solution
           /\ ret' = IF SameOutput(zeros, solution)
                     THEN Ok(solution)
                     ELSE Ok(zeros)
    /\ pc' = "done"
    /\ UNCHANGED <<circuitVars, fn, args, candidate, input_size, secret, extra_rounds, i,
                   shorVars>>

NextSimon == SimonIteration \/ SimonFail \/ SimonSolve

SpecSimon == InitSimon /\ [][NextSimon]_vars

(***************************************************************************)
(* shor.py: the period finder.  math.gcd and the three-argument pow are    *)
(* Python's; they are modelled by Euclid's algorithm and by binary         *)
(* exponentiation.  shor_quantum_subroutine builds and simulates a         *)
(* circuit; all the classical code sees of it is the measured state, some  *)
(* integer in 0..number_of_states - 1, and number_of_states itself.        *)
(***************************************************************************)
RECURSIVE math_gcd(_, _)
math_gcd(a, b) ==
    IF b = 0 THEN Abs(a) ELSE math_gcd(b, a % Abs(b))

RECURSIVE pow(_, _, _)
pow(base, exponent, modulus) ==
    IF exponent = 0
    THEN 1 % modulus
    ELSE LET half == pow(base, exponent \div 2, modulus)
         IN  IF exponent % 2 = 0
             THEN (half * half) % modulus
             ELSE (((half * half) % modulus) * base) % modulus

\* math.ceil(math.log(number_to_factor + 1, 2)): the number of bits needed
\* to represent the number.
RECURSIVE bits_needed(_, _)
bits_needed(number, size) ==
    IF 2^size >= number + 1 THEN size ELSE bits_needed(number, size + 1)

output_size(number) == bits_needed(number, 0)

\* The second component of shor_quantum_subroutine's result.
number_of_states(number) == 2^(2 * output_size(number))

\* Mutant of period_iteration: the function returns the period candidate
\* after the first non-zero measurement, whatever the remainder is.
period_iteration_unverified(number, base, old_period, old_remainder, zeros, measured) ==
    IF measured = 0
    THEN [returned |-> zeros + 1 = ZeroMeasurementLimit, value |-> -1,
          period |-> old_period, remainder |-> old_remainder,
          zeros |-> zeros + 1]
    ELSE LET convergent == find_continued_fraction_convergent(
                               measured, number_of_states(number), number)
             factor_of_period == convergent[2]
             new_period == (factor_of_period * old_period)
                               \div math_gcd(factor_of_period, old_period)
             new_remainder == pow(base, new_period, number)
         IN  [returned |-> TRUE, value |-> new_period,
              period |-> new_period, remainder |-> new_remainder,
              zeros |-> zeros]

\* Mutant of period_iteration: the period candidate is replaced by the new
\* convergent denominator instead of being combined with it.
period_iteration_forgets_period(number, base, old_period, old_remainder, zeros, measured) ==
    IF measured = 0
    THEN [returned |-> zeros + 1 = ZeroMeasurementLimit, value |-> -1,
          period |-> old_period, remainder |-> old_remainder,
          zeros |-> zeros + 1]
    ELSE LET convergent == find_continued_fraction_convergent(
                               measured, number_of_states(number), number)
             factor_of_period == convergent[2]
             new_period == factor_of_period
             new_remainder == pow(base, new_period, number)
         IN  [returned |-> new_remainder = 1, value |-> new_period,
              period |-> new_period, remainder |-> new_remainder,
              zeros |-> zeros]

\* Mutant of period_iteration: the loop test is inverted, the function
\* returns as soon as the remainder is not 1.
period_iteration_inverted_test(number, base, old_period, old_remainder, zeros, measured) ==
    IF measured = 0
    THEN [returned |-> zeros + 1 = ZeroMeasurementLimit, value |-> -1,
          period |-> old_period, remainder |-> old_remainder,
          zeros |-> zeros + 1]
    ELSE LET convergent == find_continued_fraction_convergent(
                               measured, number_of_states(number), number)
             factor_of_period == convergent[2]
             new_period == (factor_of_period * old_period)
                               \div math_gcd(factor_of_period, old_period)
             new_remainder == pow(base, new_period, number)
         IN  [returned |-> new_remainder # 1, value |-> new_period,
              period |-> new_period, remainder |-> new_remainder,
              zeros |-> zeros]

\* Mutant of period_iteration: the search is given up at the second zero
\* measurement.
period_iteration_two_strikes(number, base, old_period, old_remainder, zeros, measured) ==
    IF measured = 0
    THEN [returned |-> zeros + 1 = 2, value |-> -1,
          period |-> old_period, remainder |-> old_remainder,
          zeros |-> zeros + 1]
    ELSE LET convergent == find_continued_fraction_convergent(
                               measured, number_of_states(number), number)
             factor_of_period == convergent[2]
             new_period == (factor_of_period * old_period)
                               \div math_gcd(factor_of_period, old_period)
             new_remainder == pow(base, new_period, number)
         IN  [returned |-> new_remainder = 1, value |-> new_period,
              period |-> new_period, remainder |-> new_remainder,
              zeros |-> zeros]

\* Mutant of period_iteration: the third zero measurement does not end the
\* search, the count of zero measurements starts again from 0.
period_iteration_never_gives_up(number, base, old_period, old_remainder, zeros, measured) ==
    IF measured = 0
    THEN [returned |-> FALSE, value |-> -1,
          period |-> old_period, remainder |-> old_remainder,
          zeros |-> (zeros + 1) % ZeroMeasurementLimit]
    ELSE LET convergent == find_continued_fraction_convergent(
                               measured, number_of_states(number), number)
             factor_of_period == convergent[2]
             new_period == (factor_of_period * old_period)
                               \div math_gcd(factor_of_period, old_period)
             new_remainder == pow(base, new_period, number)
         IN  [returned |-> new_remainder = 1, value |-> new_period,
              period |-> new_period, remainder |-> new_remainder,
              zeros |-> zeros]

\* One iteration of `while remainder != 1`, entered with remainder != 1, for
\* the measured state `measured`: the new values of the loop's variables,
\* whether the function returns at the end of the iteration, and the value
\* it then returns.  (base is the source's guess.)
period_iteration(number, base, old_period, old_remainder, zeros, measured) ==
    IF measured = 0
    THEN [returned |-> zeros + 1 = ZeroMeasurementLimit, value |-> -1,
          period |-> old_period, remainder |-> old_remainder,
          zeros |-> zeros + 1]
    ELSE LET convergent == find_continued_fraction_convergent(
                               measured, number_of_states(number), number)
             factor_of_period == convergent[2]
             new_period == (factor_of_period * old_period)
                               \div math_gcd(factor_of_period, old_period)
             new_remainder == pow(base, new_period, number)
         IN  [returned |-> new_remainder = 1, value |-> new_period,
              period |-> new_period, remainder |-> new_remainder,
              zeros |-> zeros]

\* The convergent denominator the period finder derives from a non-zero
\* measured state (the source's factor_of_period), 0 for the state 0.
measurement_class(number, measured) ==
    IF measured = 0 THEN 0
    ELSE find_continued_fraction_convergent(
             measured, number_of_states(number), number)[2]

\* A measured state enters period_iteration only through being 0 or through
\* its convergent denominator, and no variable stores it, so two states of
\* one class lead to the same next state.  MeasuredStates[number] holds one
\* state (the smallest) of every class of 0..number_of_states - 1.
MeasuredStates ==
    [number \in 2..MaxNumberToFactor |->
        LET all == 0..(number_of_states(number) - 1)
            classes == {measurement_class(number, measured) : measured \in all}
        IN  {CHOOSE measured \in all :
                 measurement_class(number, measured) = class : class \in classes}]

\* find_period_of_modular_exponentiation(number_to_factor, guess), called on
\* its own.
InitPeriod ==
    /\ pc = "measuring"
    /\ NoCircuit
    /\ fn = "find_period_of_modular_exponentiation"
    /\ args = <<>>
    /\ ret = NoResult
    /\ NoMatrix
    /\ NoSimon
    /\ number_to_factor \in 2..MaxNumberToFactor
    /\ guess \in 1..(number_to_factor - 1)
    /\ period = 1
    /\ remainder = 0
    /\ number_of_zero_measurements = 0
    /\ zero_run = 0
    /\ zero_total = 0
    /\ factors = <<>>

PeriodIteration ==
    /\ pc = "measuring"
    /\ \E measured \in MeasuredStates[number_to_factor] :
          LET step == period_iteration(number_to_factor, guess, period,
                          remainder, number_of_zero_measurements, measured)
          IN  /\ period' = step.period
              /\ remainder' = step.remainder
              /\ number_of_zero_measurements' = step.zeros
              /\ zero_run' = IF measured = 0 THEN zero_run + 1 ELSE 0
              /\ zero_total' = IF measured = 0 THEN zero_total + 1
                                                ELSE zero_total
              /\ ret' = IF step.returned THEN Ok(step.value) ELSE ret
              /\ pc' = IF step.returned THEN "period_returned" ELSE "measuring"
    /\ UNCHANGED <<circuitVars, fn, args, matrixVars, simonVars, number_to_factor, guess,
                   factors>>

NextPeriod == PeriodIteration

SpecPeriod == InitPeriod /\ [][NextPeriod]_vars

(***************************************************************************)
(* shor_tests.py: run_shor, the classical factoring loop.  The period      *)
(* finder it calls is a black box to it: the call can come back with -1    *)
(* or with any positive number, verified or not (the finder's own          *)
(* documentation says its result still has to be verified).                *)
(***************************************************************************)
PeriodFinderReturns == {-1} \cup (1..MaxPeriod)

\* Mutant of run_shor_guess: the three sanity tests on the factors are left
\* out.
run_shor_guess_unverified(number, base, returned_period) ==
    IF returned_period = -1
    THEN [returned |-> FALSE, value |-> <<>>]
    ELSE IF returned_period % 2 = 1
    THEN [returned |-> FALSE, value |-> <<>>]
    ELSE LET factor_term_base == pow(base, returned_period \div 2, number)
             factor_term_a == factor_term_base + 1
             factor_term_b == factor_term_base - 1
             factor_a == math_gcd(number, factor_term_a)
             factor_b == math_gcd(number, factor_term_b)
         IN  IF factor_term_base = 1 \/ factor_term_base = number - 1
             THEN [returned |-> FALSE, value |-> <<>>]
             ELSE [returned |-> TRUE, value |-> <<factor_a, factor_b>>]

\* The body of `for guess in range(3, number_to_factor)` from the call of
\* the period finder on, for a guess coprime to the number and the period
\* the finder returned: whether run_shor returns in this iteration (every
\* `continue` gives FALSE) and the pair it returns.  (base is the source's
\* guess, returned_period its period.)
run_shor_guess(number, base, returned_period) ==
    IF returned_period = -1
    THEN [returned |-> FALSE, value |-> <<>>]
    ELSE IF returned_period % 2 = 1
    THEN [returned |-> FALSE, value |-> <<>>]
    ELSE LET factor_term_base == pow(base, returned_period \div 2, number)
             factor_term_a == factor_term_base + 1
             factor_term_b == factor_term_base - 1
             factor_a == math_gcd(number, factor_term_a)
             factor_b == math_gcd(number, factor_term_b)
         IN  IF factor_term_base = 1 \/ factor_term_base = number - 1
             THEN [returned |-> FALSE, value |-> <<>>]
             ELSE IF factor_a < 2 \/ factor_a > number
             THEN [returned |-> FALSE, value |-> <<>>]
             ELSE IF factor_b < 2 \/ factor_b > number
             THEN [returned |-> FALSE, value |-> <<>>]
             ELSE IF factor_a * factor_b # number
             THEN [returned |-> FALSE, value |-> <<>>]
             ELSE [returned |-> TRUE, value |-> <<factor_a, factor_b>>]

\* run_shor(number_to_factor) has been called.
InitShor ==
    /\ pc = "start"
    /\ NoCircuit
    /\ fn = "run_shor"
    /\ args = <<>>
    /\ ret = NoResult
    /\ NoMatrix
    /\ NoSimon
    /\ number_to_factor \in 2..MaxShorNumber
    /\ guess = 0
    /\ period = 0
    /\ remainder = 0
    /\ number_of_zero_measurements = 0
    /\ zero_run = 0
    /\ zero_total = 0
    /\ factors = <<>>

\* The even test before the loop.  number_to_factor / 2 is a float in the
\* source; for an even number it is the exact half.
ShorStart ==
    /\ pc = "start"
    /\ IF number_to_factor % 2 = 0
       THEN /\ factors' = <<2, number_to_factor \div 2>>
            /\ pc' = "done"
            /\ guess' = guess
       ELSE /\ guess' = 3
            /\ pc' = "guess_loop"
            /\ factors' = factors
    /\ UNCHANGED <<circuitVars, mathVars, matrixVars, simonVars, number_to_factor, period,
                   remainder, number_of_zero_measurements, zero_run,
                   zero_total>>

\* Mutant of ShorIteration: the period finder is called for every guess,
\* also for one that shares a factor with the number.
ShorIterationNeverSkips ==
    /\ pc = "guess_loop"
    /\ guess < number_to_factor
    /\ \E returned_period \in PeriodFinderReturns :
         LET outcome == run_shor_guess(number_to_factor, guess,
                                       returned_period)
         IN  /\ args' = <<number_to_factor, guess>>
             /\ period' = returned_period
             /\ IF outcome.returned
                THEN /\ factors' = outcome.value
                     /\ pc' = "done"
                     /\ guess' = guess
                ELSE /\ guess' = guess + 1
                     /\ UNCHANGED <<pc, factors>>
    /\ UNCHANGED <<circuitVars, fn, ret, matrixVars, simonVars, number_to_factor,
                   remainder, number_of_zero_measurements, zero_run,
                   zero_total>>

\* One iteration of the loop over the guesses.  The period finder is called
\* only for a guess that has no common factor with the number; args records
\* the arguments of its latest call.
ShorIteration ==
    /\ pc = "guess_loop"
    /\ guess < number_to_factor
    /\ IF math_gcd(number_to_factor, guess) # 1
       THEN /\ guess' = guess + 1
            /\ UNCHANGED <<pc, args, period, factors>>
       ELSE \E returned_period \in PeriodFinderReturns :
              LET outcome == run_shor_guess(number_to_factor, guess,
                                            returned_period)
              IN  /\ args' = <<number_to_factor, guess>>
                  /\ period' = returned_period
                  /\ IF outcome.returned
                     THEN /\ factors' = outcome.value
                          /\ pc' = "done"
                          /\ guess' = guess
                     ELSE /\ guess' = guess + 1
                          /\ UNCHANGED <<pc, factors>>
    /\ UNCHANGED <<circuitVars, fn, ret, matrixVars, simonVars, number_to_factor,
                   remainder, number_of_zero_measurements, zero_run,
                   zero_total>>

\* Mutant of ShorExhausted: after the last guess the trivial factorisation
\* is returned.
ShorExhaustedReturnsTrivialFactors ==
    /\ pc = "guess_loop"
    /\ guess >= number_to_factor
    /\ factors' = <<1, number_to_factor>>
    /\ pc' = "done"
    /\ UNCHANGED <<circuitVars, mathVars, matrixVars, simonVars, number_to_factor, guess,
                   period, remainder, number_of_zero_measurements, zero_run,
                   zero_total>>

\* The loop has run through every guess: run_shor returns (-1, -1).
ShorExhausted ==
    /\ pc = "guess_loop"
    /\ guess >= number_to_factor
    /\ factors' = <<-1, -1>>
    /\ pc' = "done"
    /\ UNCHANGED <<circuitVars, mathVars, matrixVars, simonVars, number_to_factor, guess,
                   period, remainder, number_of_zero_measurements, zero_run,
                   zero_total>>

NextShor == ShorStart \/ ShorIteration \/ ShorExhausted

SpecShor == InitShor /\ [][NextShor]_vars

(***************************************************************************)
(* run_shor together with the period finder of shor.py, the quantum        *)
(* subroutine behaving as its documentation describes: the measured state  *)
(* is the nearest integer to number_of_states * index / P for some index   *)
(* in 0..P - 1, where P is the period of guess^x mod number_to_factor.     *)
(* run_shor calls the finder only for a guess coprime to the number, so P  *)
(* exists.                                                                 *)
(***************************************************************************)
\* The least P >= 1 with base^P mod number = 1.
period_of_modular_exponentiation(base, number) ==
    CHOOSE P \in 1..number :
        /\ pow(base, P, number) = 1
        /\ \A smaller \in 1..(P - 1) : pow(base, smaller, number) # 1

nearest_integer(numerator, denominator) ==
    (2 * numerator + denominator) \div (2 * denominator)

IdealOutcomes(number, base) ==
    LET P == period_of_modular_exponentiation(base, number)
    IN  {nearest_integer(number_of_states(number) * index, P) :
            index \in 0..(P - 1)}

InitShorIdeal ==
    /\ pc = "start"
    /\ NoCircuit
    /\ fn = "run_shor"
    /\ args = <<>>
    /\ ret = NoResult
    /\ NoMatrix
    /\ NoSimon
    /\ number_to_factor \in 2..MaxIdealNumber
    /\ guess = 0
    /\ period = 0
    /\ remainder = 0
    /\ number_of_zero_measurements = 0
    /\ zero_run = 0
    /\ zero_total = 0
    /\ factors = <<>>

\* The head of a loop iteration: a guess with a common factor is passed
\* over, for any other guess find_period_of_modular_exponentiation is
\* entered.
ShorBeginGuess ==
    /\ pc = "guess_loop"
    /\ guess < number_to_factor
    /\ IF math_gcd(number_to_factor, guess) # 1
       THEN /\ guess' = guess + 1
            /\ UNCHANGED <<pc, period, remainder, number_of_zero_measurements,
                           zero_run, zero_total>>
       ELSE /\ period' = 1
            /\ remainder' = 0
            /\ number_of_zero_measurements' = 0
            /\ zero_run' = 0
            /\ zero_total' = 0
            /\ pc' = "measuring"
            /\ guess' = guess
    /\ UNCHANGED <<circuitVars, mathVars, matrixVars, simonVars, number_to_factor, factors>>

\* One iteration of the finder's loop on an ideal measurement.
IdealPeriodIteration ==
    /\ pc = "measuring"
    /\ \E measured \in IdealOutcomes(number_to_factor, guess) :
          LET step == period_iteration(number_to_factor, guess, period,
                          remainder, number_of_zero_measurements, measured)
          IN  /\ period' = step.period
              /\ remainder' = step.remainder
              /\ number_of_zero_measurements' = step.zeros
              /\ zero_run' = IF measured = 0 THEN zero_run + 1 ELSE 0
              /\ zero_total' = IF measured = 0 THEN zero_total + 1
                                                ELSE zero_total
              /\ ret' = IF step.returned THEN Ok(step.value) ELSE ret
              /\ pc' = IF step.returned THEN "period_returned" ELSE "measuring"
    /\ UNCHANGED <<circuitVars, fn, args, matrixVars, simonVars, number_to_factor, guess,
                   factors>>

\* The rest of the loop iteration, with the value the finder returned.
ShorUsePeriod ==
    /\ pc = "period_returned"
    /\ LET outcome == run_shor_guess(number_to_factor, guess, ret.val)
       IN  IF outcome.returned
           THEN /\ factors' = outcome.value
                /\ pc' = "done"
                /\ guess' = guess
           ELSE /\ guess' = guess + 1
                /\ pc' = "guess_loop"
                /\ factors' = factors
    /\ period' = ret.val
    /\ UNCHANGED <<circuitVars, mathVars, matrixVars, simonVars, number_to_factor,
                   remainder, number_of_zero_measurements, zero_run,
                   zero_total>>

NextShorIdeal ==
    \/ ShorStart
    \/ ShorBeginGuess
    \/ IdealPeriodIteration
    \/ ShorUsePeriod
    \/ ShorExhausted

SpecShorIdeal == InitShorIdeal /\ [][NextShorIdeal]_vars

(***************************************************************************)
(* Circuit construction with a shared ancilla cache: the arithmetic        *)
(* helpers of shor_math.py and run_flip_marker_as_phase_marker of          *)
(* utility.py.  The gates a helper appends are not modelled, only what it  *)
(* does to the cache and which exception ends it.  A heap h is the record  *)
(* [cache, allocations, status]: cache maps a key to the register stored   *)
(* under it, [id, length]; allocations lists, in order, the key and length *)
(* of every register created (the id of a register is its position in     *)
(* that list, so two registers are the same object iff their ids agree);   *)
(* status is "ok" or the exception that was raised.                        *)
(***************************************************************************)
Heap(cache, allocated) == [cache |-> cache, allocations |-> allocated, status |-> "ok"]

\* x = QubitPlaceholder() (or QubitPlaceholder.register(length)) followed by
\* ancilla_cache[key] = x.
StoreNewRegister(h, key, length) ==
    LET register == [id |-> Len(h.allocations) + 1, length |-> length]
    IN  [h EXCEPT !.cache = [k \in DOMAIN h.cache \cup {key} |-> IF k = key THEN register ELSE h.cache[k]],
                  !.allocations = Append(h.allocations, [key |-> key, length |-> length])]

\* (target_length is len(target).)
controlled_modular_increment_phase(h, modulus, target_length) ==
    IF modulus > 2^(target_length - 1)
    THEN [h EXCEPT !.status = "ValueError: multiplier too small"]
    ELSE IF "less_than_modulus_flag" \notin DOMAIN h.cache
    THEN StoreNewRegister(h, "less_than_modulus_flag", 1)
    ELSE h

\* `for i in range(0, len(multiplier))` of controlled_modular_add_product_phase
\* from the index on; an exception ends the loop.
RECURSIVE add_product_phase_loop(_, _, _, _, _)
add_product_phase_loop(h, index, modulus, multiplier_length, phase_summand_length) ==
    IF index >= multiplier_length \/ h.status # "ok"
    THEN h
    ELSE add_product_phase_loop(controlled_modular_increment_phase(h, modulus, phase_summand_length),
                                index + 1, modulus, multiplier_length, phase_summand_length)

controlled_modular_add_product_phase(h, constant, modulus, multiplier_length, phase_summand_length) ==
    IF modulus > 2^(phase_summand_length - 1)
    THEN [h EXCEPT !.status = "ValueError: multiplier too small"]
    ELSE IF constant < 0 \/ constant >= modulus
    THEN [h EXCEPT !.status = "ValueError: constant out of range"]
    ELSE add_product_phase_loop(h, 0, modulus, multiplier_length, phase_summand_length)

\* phase_summand = summand + [extra_zero_bit] is one qubit longer than the
\* summand.
controlled_modular_add_product(h, constant, modulus, multiplier_length, summand_length) ==
    LET with_extra == IF "extra_zero_bit" \notin DOMAIN h.cache
                      THEN StoreNewRegister(h, "extra_zero_bit", 1)
                      ELSE h
    IN  controlled_modular_add_product_phase(with_extra, constant, modulus, multiplier_length, summand_length + 1)

\* The CSWAP loop indexes summand[i] for every i below len(multiplier), so a
\* cached summand that is shorter than the multiplier raises IndexError.
controlled_modular_multiply(h, constant, modulus, multiplier_length) ==
    LET with_summand == IF "summand" \notin DOMAIN h.cache
                        THEN StoreNewRegister(h, "summand", multiplier_length)
                        ELSE h
        summand_length == with_summand.cache["summand"].length
        added == controlled_modular_add_product(with_summand, constant, modulus, multiplier_length, summand_length)
        inverse_mod_value == inverse_mod(constant, modulus)
    IN  IF added.status # "ok"
        THEN added
        ELSE IF summand_length < multiplier_length
        THEN [added EXCEPT !.status = "IndexError"]
        ELSE IF inverse_mod_value.status # "ok"
        THEN [added EXCEPT !.status = inverse_mod_value.status]
        ELSE controlled_modular_add_product(added, inverse_mod_value.val, modulus, multiplier_length, summand_length)

\* utility.py: the test looks for the key "phase_marker_target", the store
\* and the read use the key "phase_flip_target".
run_flip_marker_as_phase_marker(h) ==
    IF "phase_marker_target" \notin DOMAIN h.cache
    THEN StoreNewRegister(h, "phase_flip_target", 1)
    ELSE IF "phase_flip_target" \in DOMAIN h.cache
    THEN h
    ELSE [h EXCEPT !.status = "KeyError"]

\* A construction pass: a fresh cache that the calls below share.
InitAncilla ==
    /\ pc = "constructing"
    /\ fn = "none"
    /\ args = <<>>
    /\ ret = NoResult
    /\ NoMatrix
    /\ NoSimon
    /\ NoShor
    /\ ancilla_cache = <<>>
    /\ allocations = <<>>
    /\ input_bits = <<>>
    /\ output = 0
    /\ output_length = 0

\* What every helper call of the pass leaves behind: the cache and the
\* allocations as the helper left them, and the end of the pass if it raised.
HelperReturns(name, arguments, h) ==
    /\ fn' = name
    /\ args' = arguments
    /\ ancilla_cache' = h.cache
    /\ allocations' = h.allocations
    /\ ret' = IF h.status = "ok" THEN Ok(<<>>) ELSE Raise(h.status)
    /\ pc' = IF h.status = "ok" THEN "constructing" ELSE "raised"
    /\ UNCHANGED <<matrixVars, simonVars, shorVars, input_bits, output, output_length>>

CallControlledModularIncrementPhase ==
    /\ pc = "constructing"
    /\ Len(allocations) < MaxPlaceholders
    /\ \E modulus \in 1..MaxModulus, target_length \in 1..MaxRegister + 1 :
         HelperReturns("controlled_modular_increment_phase", <<modulus, target_length>>,
                       controlled_modular_increment_phase(Heap(ancilla_cache, allocations), modulus, target_length))

CallControlledModularAddProduct ==
    /\ pc = "constructing"
    /\ Len(allocations) < MaxPlaceholders
    /\ \E constant \in 0..MaxModulus, modulus \in 1..MaxModulus, multiplier_length \in 1..MaxRegister, summand_length \in 1..MaxRegister :
         HelperReturns("controlled_modular_add_product", <<constant, modulus, multiplier_length, summand_length>>,
                       controlled_modular_add_product(Heap(ancilla_cache, allocations), constant, modulus, multiplier_length, summand_length))

CallControlledModularMultiply ==
    /\ pc = "constructing"
    /\ Len(allocations) < MaxPlaceholders
    /\ \E constant \in 0..MaxModulus, modulus \in 1..MaxModulus, multiplier_length \in 1..MaxRegister :
         HelperReturns("controlled_modular_multiply", <<constant, modulus, multiplier_length>>,
                       controlled_modular_multiply(Heap(ancilla_cache, allocations), constant, modulus, multiplier_length))

CallRunFlipMarkerAsPhaseMarker ==
    /\ pc = "constructing"
    /\ Len(allocations) < MaxPlaceholders
    /\ HelperReturns("run_flip_marker_as_phase_marker", <<>>,
                     run_flip_marker_as_phase_marker(Heap(ancilla_cache, allocations)))

NextAncilla ==
    \/ CallControlledModularIncrementPhase
    \/ CallControlledModularAddProduct
    \/ CallControlledModularMultiply
    \/ CallRunFlipMarkerAsPhaseMarker

SpecAncilla == InitAncilla /\ [][NextAncilla]_vars

(***************************************************************************)
(* The period finder alone on ideal measurements, the outcomes             *)
(* nearest_integer(number_of_states * index, P), index in 0..P - 1, with a *)
(* measurement oracle that does not withhold an outcome for ever.  The     *)
(* history variables zero_run and zero_total are not kept in this          *)
(* specification.                                                          *)
(***************************************************************************)
InitPeriodFair ==
    /\ pc = "measuring"
    /\ fn = "find_period_of_modular_exponentiation"
    /\ args = <<>>
    /\ ret = NoResult
    /\ NoMatrix
    /\ NoSimon
    /\ NoCircuit
    /\ number_to_factor \in 2..MaxFairNumber
    /\ guess \in {base \in 1..(number_to_factor - 1) :
                     math_gcd(number_to_factor, base) = 1}
    /\ period = 1
    /\ remainder = 0
    /\ number_of_zero_measurements = 0
    /\ zero_run = 0
    /\ zero_total = 0
    /\ factors = <<>>

\* One iteration of the finder's loop in which the quantum subroutine
\* measures the ideal outcome of the given index.
IdealMeasurement(index) ==
    /\ pc = "measuring"
    /\ index < period_of_modular_exponentiation(guess, number_to_factor)
    /\ LET measured == nearest_integer(
                           number_of_states(number_to_factor) * index,
                           period_of_modular_exponentiation(guess, number_to_factor))
           step == period_iteration(number_to_factor, guess, period,
                       remainder, number_of_zero_measurements, measured)
       IN  /\ period' = step.period
           /\ remainder' = step.remainder
           /\ number_of_zero_measurements' = step.zeros
           /\ ret' = IF step.returned THEN Ok(step.value) ELSE ret
           /\ pc' = IF step.returned THEN "period_returned" ELSE "measuring"
    /\ UNCHANGED <<circuitVars, fn, args, matrixVars, simonVars,
                   number_to_factor, guess, zero_run, zero_total, factors>>

NextPeriodFair == \E index \in 0..(MaxFairNumber - 1) : IdealMeasurement(index)

\* A fair oracle measures every ideal outcome again and again while the
\* loop runs.  Of that, only the recurrence of the outcome of index 0 (the
\* state 0, ideal for every period) is assumed here, so the behaviours of a
\* fair oracle are among those of this specification.
FairMeasurements == WF_vars(IdealMeasurement(0))

SpecPeriodFair == InitPeriodFair /\ [][NextPeriodFair]_vars /\ FairMeasurements

(***************************************************************************)
(* Every way the repository builds a matrix with check_linear_independence *)
(* from the empty list: the library harness above, where any candidate of  *)
(* input_size bits may come, and the loop of Simon's driver.               *)
(***************************************************************************)
InitCollect == InitMatrix \/ InitSimon

NextCollect ==
    \/ CallCheckLinearIndependence
    \/ CallCompleteMatrix
    \/ SimonIteration
    \/ SimonFail
    \/ SimonSolve

SpecCollect == InitCollect /\ [][NextCollect]_vars

(***************************************************************************)
(* modular_exponentiation: one controlled modular multiplication per input *)
(* qubit, all sharing one ancilla cache.  The run follows one basis state  *)
(* of the input register: input_bits[i + 1] is the value of input[i], and  *)
(* output is the value the output register holds for that basis state (a   *)
(* controlled multiplication by c maps it to output * c mod b when its     *)
(* control bit is 1 and leaves it alone otherwise).                        *)
(***************************************************************************)
\* Mutant of modular_exponentiation_constant: the powers of two are attached
\* to the input qubits least significant first.
modular_exponentiation_constant_reversed(a, b, size, index) ==
    pow(a, 2^index, b)

\* Mutant of modular_exponentiation_constant: the base is multiplied by the
\* power of two instead of being raised to it.
modular_exponentiation_constant_scaled(a, b, size, index) ==
    (a * 2^(size - 1 - index)) % b

\* The constant of the iteration i = index of the loop, for an input
\* register of the given size.
modular_exponentiation_constant(a, b, size, index) ==
    LET power_of_two == size - 1 - index
        power_of_guess == 2^power_of_two
    IN  pow(a, power_of_guess, b)

\* modular_exponentiation(circuit, input, output, guess, number_to_factor)
\* has set the output register to |0...01> and is about to enter its loop.
InitModExp ==
    /\ pc = "exponentiating"
    /\ fn = "controlled_modular_multiply"
    /\ args = <<>>
    /\ ret = NoResult
    /\ NoMatrix
    /\ input_size \in 1..MaxInputSize
    /\ secret = <<>>
    /\ extra_rounds = 0
    /\ i = 0
    /\ right_hand_side = <<>>
    /\ secret_string = <<>>
    /\ number_to_factor \in 2..MaxExpModulus
    /\ guess \in 0..MaxBase
    /\ period = 0
    /\ remainder = 0
    /\ number_of_zero_measurements = 0
    /\ zero_run = 0
    /\ zero_total = 0
    /\ factors = <<>>
    /\ ancilla_cache = <<>>
    /\ allocations = <<>>
    /\ input_bits \in BitStrings(input_size)
    /\ output = 1
    /\ output_length \in 1..MaxOutputLength

\* One iteration of `for i in range(0, input_size)`; an exception raised by
\* controlled_modular_multiply ends the construction.
ModularExponentiationStep ==
    /\ pc = "exponentiating"
    /\ i < input_size
    /\ LET constant == modular_exponentiation_constant(guess, number_to_factor, input_size, i)
           h == controlled_modular_multiply(Heap(ancilla_cache, allocations), constant, number_to_factor, output_length)
       IN  /\ args' = <<constant, number_to_factor>>
           /\ ancilla_cache' = h.cache
           /\ allocations' = h.allocations
           /\ IF h.status # "ok"
              THEN /\ ret' = Raise(h.status)
                   /\ pc' = "raised"
                   /\ UNCHANGED <<i, output>>
              ELSE /\ ret' = Ok(<<>>)
                   /\ i' = i + 1
                   /\ output' = IF input_bits[i + 1]
                                THEN (output * constant) % number_to_factor
                                ELSE output
                   /\ pc' = IF i + 1 = input_size THEN "built"
                            ELSE "exponentiating"
    /\ UNCHANGED <<fn, matrixVars, input_size, secret, extra_rounds,
                   right_hand_side, secret_string, number_to_factor, guess,
                   period, remainder, number_of_zero_measurements, zero_run,
                   zero_total, factors, input_bits, output_length>>

NextModExp == ModularExponentiationStep

SpecModExp == InitModExp /\ [][NextModExp]_vars

(***************************************************************************)
(* Mathematical reference notions the claims are stated with.  None of     *)
(* them is computed the way the code computes its results.                 *)
(***************************************************************************)
Divides(d, n) == IF d = 0 THEN n = 0 ELSE n % d = 0

\* The greatest common divisor as the largest common divisor; 0 for (0, 0).
GreatestCommonDivisor(a, b) ==
    IF a = 0 /\ b = 0
    THEN 0
    ELSE CHOOSE d \in 1..(Abs(a) + Abs(b)) :
            /\ Divides(d, a) /\ Divides(d, b)
            /\ \A e \in 1..(Abs(a) + Abs(b)) :
                  Divides(e, a) /\ Divides(e, b) => e <= d

\* The continued-fraction coefficients a_0, a_1, ... of p/q (q > 0).
RECURSIVE CFCoefficients(_, _)
CFCoefficients(p, q) ==
    IF p % q = 0
    THEN <<p \div q>>
    ELSE <<p \div q>> \o CFCoefficients(q, p % q)

\* The value a_0 + 1/(a_1 + 1/(... + 1/a_k)) as a fraction <<num, den>>,
\* evaluated from the innermost term outwards.
RECURSIVE CFValue(_)
CFValue(coefficients) ==
    IF Len(coefficients) = 1
    THEN <<coefficients[1], 1>>
    ELSE LET inner == CFValue(Tail(coefficients))
         IN  <<coefficients[1] * inner[1] + inner[2], inner[1]>>

Convergents(p, q) ==
    LET c == CFCoefficients(p, q)
    IN  {CFValue(SubSeq(c, 1, k)) : k \in 1..Len(c)}

(***************************************************************************)
(* Claims about the modular arithmetic library (SpecMath).                 *)
(***************************************************************************)

C6_InverseForAllCoprime ==
    (fn = "inverse_mod" /\ GreatestCommonDivisor(args[1], args[2]) = 1) =>
        /\ ret.status = "ok"
        /\ args[2] > 0
        /\ (ret.val * args[1]) % args[2] = 1

\* C6 amended: for every pair (a, modulus) with modulus >= 2 and
\* gcd(a, modulus) = 1 (a of either sign), inverse_mod(a, modulus) returns
\* b with 0 <= b < modulus and (b * a) mod modulus = 1.
C6_InverseForModulusAtLeastTwo ==
    (/\ fn = "inverse_mod"
     /\ args[2] >= 2
     /\ GreatestCommonDivisor(args[1], args[2]) = 1) =>
        /\ ret.status = "ok"
        /\ ret.val \in 0..(args[2] - 1)
        /\ (ret.val * args[1]) % args[2] = 1

\* C6 witness: the inverse of a negative number modulo a prime larger than
\* 2 was returned.
C6_Witness ==
    /\ fn = "inverse_mod" /\ pc = "returned"
    /\ args[1] < -1 /\ args[2] = 7
    /\ ret.status = "ok"

\* C7: for p >= 0, q > 0 and T >= 1, find_continued_fraction_convergent(p,
\* q, T) returns a convergent (n, d) of p/q with d <= T such that no
\* convergent of p/q has a denominator greater than d and at most T; when
\* no convergent denominator exceeds T it is the final, exact convergent.
C7_LargestConvergentWithinThreshold ==
    (fn = "find_continued_fraction_convergent" /\ args[3] >= 1) =>
        LET p == args[1]
            q == args[2]
            T == args[3]
            d == ret.val[2]
        IN  /\ ret.val \in Convergents(p, q)
            /\ d <= T
            /\ ~ \E c \in Convergents(p, q) : c[2] > d /\ c[2] <= T
            /\ (\A c \in Convergents(p, q) : c[2] <= T) =>
                   ret.val = CFValue(CFCoefficients(p, q))

\* C7 witness: a call whose fraction has a convergent denominator above the
\* threshold returned a convergent that is neither the first nor the exact
\* one.
C7_Witness ==
    /\ fn = "find_continued_fraction_convergent" /\ pc = "returned"
    /\ args[3] >= 1
    /\ \E c \in Convergents(args[1], args[2]) : c[2] > args[3]
    /\ ret.val[2] > 1
    /\ ret.val # CFValue(CFCoefficients(args[1], args[2]))

(***************************************************************************)
(* Reference notions for GF(2) matrices.                                   *)
(***************************************************************************)
\* The XOR of the rows of the matrix whose indices are in the set: bit c is
\* the parity of the number of chosen rows with a 1 in column c.
XorOfRows(matrix, indices, width) ==
    [c \in 1..width |->
        Cardinality({r \in indices : matrix[r][c]}) % 2 = 1]

\* All GF(2) linear combinations of the rows (the all-zero row included).
Span(matrix, width) ==
    {XorOfRows(matrix, indices, width) : indices \in SUBSET (1..Len(matrix))}

IsZeroRow(row) == \A c \in 1..Len(row) : ~ row[c]

\* The column of the first 1 of a row, 0 for an all-zero row.
PivotColumn(row) ==
    IF IsZeroRow(row) THEN 0
    ELSE CHOOSE c \in 1..Len(row) :
            row[c] /\ \A c2 \in 1..(c - 1) : ~ row[c2]

\* Echelon form: a non-zero row follows only non-zero rows, its pivot lies
\* strictly to the right of the pivot of the row above, and the column of a
\* pivot is zero in all rows below it.
InEchelonForm(matrix) ==
    /\ \A r \in 2..Len(matrix) :
          PivotColumn(matrix[r]) # 0 =>
              /\ PivotColumn(matrix[r - 1]) # 0
              /\ PivotColumn(matrix[r - 1]) < PivotColumn(matrix[r])
    /\ \A r \in 1..Len(matrix) :
          PivotColumn(matrix[r]) # 0 =>
              \A r2 \in (r + 1)..Len(matrix) :
                  ~ matrix[r2][PivotColumn(matrix[r])]

(***************************************************************************)
(* Claims about the GF(2) library (SpecMatrix).                            *)
(***************************************************************************)

\* C4: for a matrix that is empty or was built only by earlier
\* check_linear_independence calls, check_linear_independence(candidate,
\* matrix) returns True exactly when the candidate is no XOR of a subset of
\* the rows already in the matrix; an all-zero candidate returns False.
C4_TrueIffNotInSpan ==
    fn = "check_linear_independence" =>
        /\ ret.val = (candidate \notin Span(before, input_size))
        /\ IsZeroRow(candidate) => ret.val = FALSE

\* C4 witness: a non-zero candidate that equals no row of a two-row matrix
\* but is the XOR of both was rejected.
C4_Witness ==
    /\ fn = "check_linear_independence" /\ pc = "collecting"
    /\ Len(before) = 2
    /\ ~ IsZeroRow(candidate)
    /\ candidate # before[1] /\ candidate # before[2]
    /\ ret.val = FALSE

\* C9: after convert_to_reduced_row_echelon_form on any non-empty matrix of
\* equal-length bit rows the matrix is in echelon form (pivot columns
\* strictly increase downwards, every entry below a pivot is 0, all-zero
\* rows come last) and has as many rows, of the same length, as before.
C9_EchelonFormSameHeight ==
    pc = "reduced" =>
        /\ InEchelonForm(valid_inputs)
        /\ Len(valid_inputs) = Len(before)
        /\ \A r \in 1..Len(valid_inputs) :
              Len(valid_inputs[r]) = Len(before[r])

\* C9 witness: the reduction of a three-row matrix without zero rows, whose
\* first row starts with 0, swapped a row up and left a zero row at the
\* bottom.
C9_Witness ==
    /\ pc = "reduced"
    /\ Len(before) = 3
    /\ \A r \in 1..3 : ~ IsZeroRow(before[r])
    /\ ~ before[1][1] /\ valid_inputs[1][1]
    /\ IsZeroRow(valid_inputs[3])

\* C10: running convert_to_reduced_row_echelon_form a second time, on the
\* matrix the first run produced, changes no entry and no row position.
C10_ReductionIdempotent ==
    pc = "reduced_again" => valid_inputs = before

\* C10 witness: the second run has finished on the result of a first run
\* that had changed a three-row matrix.
C10_Witness ==
    /\ pc = "reduced_again"
    /\ Len(args[1]) = 3
    /\ args[1] # before
    /\ ~ IsZeroRow(before[2])

\* C11: for a matrix built only by earlier check_linear_independence calls,
\* a call that returns False leaves the matrix row for row as it was before
\* the call, a call that returns True leaves it with exactly one more row,
\* and no call leaves it with fewer rows than it had.
C11_FalseKeepsMatrixTrueAddsOneRow ==
    fn = "check_linear_independence" =>
        /\ ret.val = FALSE => valid_inputs = before
        /\ ret.val = TRUE => Len(valid_inputs) = Len(before) + 1
        /\ Len(valid_inputs) >= Len(before)

\* C11 witness: a non-zero candidate was rejected by a two-row matrix whose
\* first row it had to be XORed with, and the two rows are as they were.
C11_Witness ==
    /\ fn = "check_linear_independence"
    /\ Len(before) = 2
    /\ ~ IsZeroRow(candidate)
    /\ candidate[PivotColumn(before[1])]
    /\ ret.val = FALSE
    /\ valid_inputs = before

\* The row is the candidate XORed with some XOR of rows of the matrix.
IsReducedFormOf(row, candidate_row, matrix) ==
    \E combination \in Span(matrix, Len(candidate_row)) :
        row = [c \in 1..Len(candidate_row) |->
                  candidate_row[c] # combination[c]]

\* The matrix with the row inserted so that it becomes row number position.
WithRowAt(matrix, position, row) ==
    SubSeq(matrix, 1, position - 1) \o <<row>>
        \o SubSeq(matrix, position, Len(matrix))

\* C12 as stated: whenever check_linear_independence returns True, the
\* bottom row of the matrix is the candidate in its reduced form, and the
\* rows that were in the matrix before keep their positions above it.
C12_AcceptedCandidateIsBottomRow ==
    (fn = "check_linear_independence" /\ ret.val = TRUE) =>
        /\ SubSeq(valid_inputs, 1, Len(before)) = before
        /\ IsReducedFormOf(valid_inputs[Len(valid_inputs)], candidate, before)

\* C12 amended: whenever check_linear_independence returns True, the matrix
\* is the old matrix, its rows unchanged and in their old order, with the
\* candidate in its reduced form inserted as one new row at the position
\* that keeps the pivot columns increasing downwards; that position is the
\* bottom exactly when the new row's pivot lies right of every old pivot.
C12_AcceptedCandidateIsInsertedInPivotOrder ==
    (fn = "check_linear_independence" /\ ret.val = TRUE) =>
        /\ InEchelonForm(valid_inputs)
        /\ \E position \in 1..(Len(before) + 1) :
              /\ IsReducedFormOf(valid_inputs[position], candidate, before)
              /\ valid_inputs = WithRowAt(before, position,
                                          valid_inputs[position])
              /\ position = Len(before) + 1 <=>
                    \A r \in 1..Len(before) :
                        PivotColumn(before[r])
                            < PivotColumn(valid_inputs[position])

\* C12 witness: the candidate [1, 0, 0] was accepted by the matrix
\* [[0, 1, 0]] and is now the first row, above the old row.
C12_Witness ==
    /\ fn = "check_linear_independence"
    /\ ret.val = TRUE
    /\ before = << <<FALSE, TRUE, FALSE>> >>
    /\ candidate = <<TRUE, FALSE, FALSE>>
    /\ valid_inputs = << <<TRUE, FALSE, FALSE>>, <<FALSE, TRUE, FALSE>> >>

\* The row of the given length whose only 1 is at the index.
UnitRow(index, length) == [c \in 1..length |-> c = index]

\* Square, 1 everywhere on the diagonal, 0 everywhere below it.
IsUnitUpperTriangular(matrix) ==
    \A r \in 1..Len(matrix) :
        /\ Len(matrix[r]) = Len(matrix)
        /\ matrix[r][r]
        /\ \A c \in 1..(r - 1) : ~ matrix[r][c]

\* C13: for every matrix of N - 1 linearly independent rows of length N in
\* echelon form, as check_linear_independence leaves it, complete_matrix
\* inserts exactly one row: the unit vector with its 1 at index i, at row
\* index i, where i is the first row index whose diagonal entry is 0 or,
\* when every diagonal entry is 1, the index past the last row.  It returns
\* that unit vector, and the resulting N x N matrix is upper-triangular
\* with every diagonal entry 1.
C13_CompleteInsertsUnitRowAtFirstZeroDiagonal ==
    fn = "complete_matrix" =>
        /\ \E index \in 1..input_size :
              /\ \A r \in 1..(index - 1) : before[r][r]
              /\ index <= Len(before) => ~ before[index][index]
              /\ valid_inputs = WithRowAt(before, index,
                                          UnitRow(index, input_size))
              /\ ret = Ok(UnitRow(index, input_size))
        /\ Len(valid_inputs) = input_size
        /\ IsUnitUpperTriangular(valid_inputs)

\* C13 witness: a matrix of at least two rows whose first diagonal entry is
\* 1 and whose second is 0 got the unit row inserted in the middle, as
\* row 2.
C13_Witness ==
    /\ fn = "complete_matrix"
    /\ Len(before) >= 2
    /\ before[1][1] /\ ~ before[2][2]
    /\ valid_inputs[2] = UnitRow(2, input_size)
    /\ valid_inputs[3] = before[2]

\* Row r of the system holds for the vector: the XOR over the columns c of
\* (matrix[r][c] AND vector[c]) equals rhs[r].
RowHolds(matrix, rhs, vector, r) ==
    (Cardinality({c \in 1..Len(vector) : matrix[r][c] /\ vector[c]}) % 2 = 1)
        = rhs[r]

Solves(matrix, rhs, vector) ==
    \A r \in 1..Len(matrix) : RowHolds(matrix, rhs, vector, r)

\* C14: for every N x N matrix M that is upper-triangular with every
\* diagonal entry 1 and every right-hand side rhs of length N,
\* solve_matrix(M, rhs) returns the one vector s for which every row r has
\* XOR over c of (M[r][c] AND s[c]) = rhs[r]; M and rhs are as they were.
C14_SolveMatrixSolvesEveryRow ==
    (fn = "solve_matrix" /\ IsUnitUpperTriangular(args[1])) =>
        /\ Len(ret.val) = Len(args[1])
        /\ Solves(args[1], args[2], ret.val)
        /\ \A other \in BitStrings(Len(args[1])) :
              Solves(args[1], args[2], other) => other = ret.val
        /\ valid_inputs = args[1]
        /\ right_hand_side = args[2]

\* C14 witness: a 3 x 3 system whose first row has a 1 in every column and
\* whose solution has a 1 in every position, so that both later values are
\* XORed into the first row's right-hand side.
C14_Witness ==
    /\ fn = "solve_matrix"
    /\ Len(args[1]) = 3
    /\ args[1][1] = <<TRUE, TRUE, TRUE>>
    /\ args[1][2][3]
    /\ ret.val = <<TRUE, TRUE, TRUE>>

(***************************************************************************)
(* Claims about Simon's driver (SpecSimon).                                *)
(***************************************************************************)

\* C3: for every register length N >= 2, every non-zero secret S and every
\* sequence of measurements x with x . S = 0 (mod 2): once the driver has
\* collected N - 1 linearly independent vectors through
\* check_linear_independence, solve_matrix(matrix, complete_matrix(matrix))
\* equals S.
C3_SolveRecoversSecret ==
    (pc = "done" /\ ~ IsZeroRow(secret)) =>
        /\ Len(before) = input_size - 1
        /\ secret_string = secret

\* C3 witness: the driver has solved the 3-bit problem whose secret is
\* [1, 0, 0], the string left-shift-by-1 hides, from two independent
\* measured vectors, and returned that secret.
C3_Witness ==
    /\ pc = "done"
    /\ input_size = 3
    /\ secret = <<TRUE, FALSE, FALSE>>
    /\ left_shift_by_1(secret) = left_shift_by_1(<<FALSE, FALSE, FALSE>>)
    /\ Len(before) = 2
    /\ secret_string = <<TRUE, FALSE, FALSE>>
    /\ ret = Ok(<<TRUE, FALSE, FALSE>>)


\* C15: the Simon driver takes at most N + extra_rounds measurements; it
\* goes on measuring only while it holds fewer than N - 1 independent
\* vectors and stops right after the measurement that brings it to N - 1;
\* it fails with "Didn't find enough independent inputs" exactly when all
\* N + extra_rounds measurements have been taken and it still holds fewer
\* than N - 1; complete_matrix and solve_matrix are never run on fewer than
\* N - 1 rows.
C15_MeasurementBudget ==
    /\ [](/\ i <= input_size + extra_rounds
          /\ pc = "loop" => Len(valid_inputs) < input_size - 1
          /\ pc = "found" => /\ Len(valid_inputs) = input_size - 1
                             /\ Len(before) = input_size - 2
          /\ pc = "failed" => /\ i = input_size + extra_rounds
                              /\ Len(valid_inputs) < input_size - 1
                              /\ ret.status # "ok"
          /\ pc = "done" => /\ Len(before) = input_size - 1
                            /\ ret.status = "ok")
    /\ [][/\ pc \in {"found", "done", "failed"} => i' = i
          /\ (pc = "loop" /\ i = input_size + extra_rounds) => pc' = "failed"
          /\ (pc = "loop" /\ i < input_size + extra_rounds) =>
                 /\ i' = i + 1
                 /\ pc' \in {"loop", "found"}]_vars

\* C15 witness: the driver has failed on 3 bits after all its measurements,
\* with one independent vector in hand.
C15_Witness ==
    /\ pc = "failed"
    /\ input_size = 3
    /\ i = input_size + extra_rounds
    /\ Len(valid_inputs) = 1

\* C16: for a one-to-one function (hidden string all zeros, as for the
\* identity), every run of the Simon driver that collects N - 1 independent
\* vectors returns the all-zero string: the vector solve_matrix produces is
\* never all zeros, so the function's output for it differs from the output
\* for all zeros, and the driver returns all zeros instead of raising.
C16_OneToOneReturnsAllZeros ==
    (pc = "done" /\ IsZeroRow(secret)) =>
        /\ ~ IsZeroRow(secret_string)
        /\ ~ SameOutput([c \in 1..input_size |-> FALSE], secret_string)
        /\ ret = Ok([c \in 1..input_size |-> FALSE])

\* C16 witness: the driver has run on a one-to-one function of 3 bits,
\* solved for [0, 0, 1] and returned [0, 0, 0].
C16_Witness ==
    /\ pc = "done"
    /\ input_size = 3
    /\ secret = <<FALSE, FALSE, FALSE>>
    /\ secret_string = <<FALSE, FALSE, TRUE>>
    /\ ret = Ok(<<FALSE, FALSE, FALSE>>)

(***************************************************************************)
(* Claims about Shor's period finder (SpecPeriod) and factoring loop       *)
(* (SpecShor).                                                             *)
(***************************************************************************)
\* base^exponent mod modulus by exponent successive multiplications.
RECURSIVE RepeatedProduct(_, _, _)
RepeatedProduct(base, exponent, modulus) ==
    IF exponent = 0 THEN 1 % modulus
    ELSE (RepeatedProduct(base, exponent - 1, modulus) * base) % modulus

\* base^exponent mod modulus = 1, for modulus >= 2 and exponent >= 1: the
\* powers of base reach 1 within modulus steps, and the first exponent at
\* which they do divides the given one.
PowerIsOne(base, exponent, modulus) ==
    \E order \in 1..modulus :
        /\ RepeatedProduct(base, order, modulus) = 1
        /\ \A smaller \in 1..(order - 1) :
               RepeatedProduct(base, smaller, modulus) # 1
        /\ exponent % order = 0

PeriodFinderAborted == pc = "period_returned" /\ ret = Ok(-1)

\* C1: whatever states the quantum subroutine measures, every value P other
\* than -1 that find_period_of_modular_exponentiation(number_to_factor,
\* guess) returns is at least 1 and satisfies guess^P mod number_to_factor
\* = 1; the loop is left with a period only when the remainder computed for
\* that very period is 1.
C1_ReturnedPeriodIsVerified ==
    (pc = "period_returned" /\ ret # Ok(-1)) =>
        /\ ret.val >= 1
        /\ PowerIsOne(guess, ret.val, number_to_factor)
        /\ ret.val = period
        /\ remainder = 1

\* C1 witness: the finder has returned 4 for 7^x mod 15 after two zero
\* measurements.
C1_Witness ==
    /\ pc = "period_returned"
    /\ number_to_factor = 15
    /\ guess = 7
    /\ ret = Ok(4)
    /\ zero_total = 2

\* C8 as stated: find_period_of_modular_exponentiation has aborted with -1
\* exactly when the latest three measurements were all 0 (three zero
\* measurements in a row), never on fewer or on non-consecutive ones.
C8_AbortsIffThreeZerosInARow ==
    PeriodFinderAborted <=> zero_run = 3

\* C8 amended: find_period_of_modular_exponentiation has aborted with -1
\* exactly when 0 has been measured three times in all since the call
\* began, whether or not non-zero measurements came between them; it never
\* aborts on fewer zero measurements.
C8_AbortsIffThreeZerosInAll ==
    /\ PeriodFinderAborted <=> zero_total = 3
    /\ zero_total <= 3

\* C8 witness: the finder has aborted at a zero measurement that followed a
\* non-zero one, which had followed two zero measurements.
C8_Witness ==
    /\ PeriodFinderAborted
    /\ zero_total = 3
    /\ zero_run = 1
    /\ period > 1

\* The least common multiple of two positive numbers, as the least multiple
\* of the first that the second divides.
LeastCommonMultiple(a, b) ==
    a * (CHOOSE k \in 1..b :
            /\ (a * k) % b = 0
            /\ \A smaller \in 1..(k - 1) : (a * smaller) % b # 0)

\* The denominators find_continued_fraction_convergent can give the period
\* finder for a non-zero measured state.
ConvergentDenominators ==
    [number \in 2..MaxNumberToFactor |->
        {measurement_class(number, measured) :
            measured \in MeasuredStates[number] \ {0}}]

\* C17: in find_period_of_modular_exponentiation the period candidate starts
\* at 1 and never decreases from one loop iteration to the next: a zero
\* measurement leaves it unchanged, and a non-zero measurement makes it the
\* least common multiple of its old value and the convergent denominator,
\* a positive multiple of the old value.
C17_PeriodNeverDecreases ==
    /\ period = 1
    /\ [](period >= 1)
    /\ [][/\ period' >= period
          /\ period' % period = 0
          /\ zero_total' # zero_total => period' = period
          /\ zero_total' = zero_total =>
                \E factor_of_period \in ConvergentDenominators[number_to_factor] :
                    /\ factor_of_period >= 1
                    /\ period' = LeastCommonMultiple(period, factor_of_period)]_vars

\* C17 witness: for 7^x mod 15 the candidate has grown to 6, the least
\* common multiple of the denominators 2 and 3, and a zero measurement has
\* just left it there.
C17_Witness ==
    /\ pc = "measuring"
    /\ number_to_factor = 15
    /\ guess = 7
    /\ period = 6
    /\ zero_run = 1

\* C2: for every odd number_to_factor N and whatever periods the period
\* finder returns, a pair other than (-1, -1) that run_shor returns has both
\* factors in [2, N) and their product is N.
C2_ReturnedFactorsAreProper ==
    (/\ fn = "run_shor"
     /\ pc = "done"
     /\ number_to_factor % 2 = 1
     /\ factors # <<-1, -1>>) =>
        /\ factors[1] \in 2..(number_to_factor - 1)
        /\ factors[2] \in 2..(number_to_factor - 1)
        /\ factors[1] * factors[2] = number_to_factor

\* C2 witness: run_shor has returned (5, 3) for 15 from the guess 7 with
\* the period 4, after the guesses before it were passed over.
C2_Witness ==
    /\ fn = "run_shor"
    /\ pc = "done"
    /\ number_to_factor = 15
    /\ guess = 7
    /\ period = 4
    /\ factors = <<5, 3>>

\* No number strictly between 1 and the number divides it.
IsPrime(number) ==
    /\ number >= 2
    /\ \A d \in 2..(number - 1) : number % d # 0

\* C19: for every odd prime number_to_factor, whatever periods the period
\* finder returns for each guess, run_shor returns (-1, -1) and never a
\* pair of factors.
C19_PrimeGivesNoFactors ==
    (/\ fn = "run_shor"
     /\ pc = "done"
     /\ number_to_factor % 2 = 1
     /\ IsPrime(number_to_factor)) => factors = <<-1, -1>>

\* C19 witness: run_shor has returned (-1, -1) for 7 after the period
\* finder had returned the even period 6 for its last guess, 6.
C19_Witness ==
    /\ fn = "run_shor"
    /\ pc = "done"
    /\ number_to_factor = 7
    /\ guess = 7
    /\ period = 6
    /\ factors = <<-1, -1>>

(***************************************************************************)
(* Claims about run_shor with the period finder on ideal measurements      *)
(* (SpecShorIdeal).                                                        *)
(***************************************************************************)

\* C18: for number_to_factor 21 and guess 11 the input register has 10 bits
\* (1024 states) and the ideal measurements are 0, 171, 341, 512, 683 and
\* 853; with every measurement one of these, every value that
\* find_period_of_modular_exponentiation returns other than -1 is 6, the
\* least positive P with 11^P mod 21 = 1.
C18_PeriodOf11Mod21IsSix ==
    (/\ number_to_factor = 21
     /\ guess = 11
     /\ pc = "period_returned"
     /\ ret # Ok(-1)) =>
        /\ number_of_states(21) = 1024
        /\ IdealOutcomes(21, 11) = {0, 171, 341, 512, 683, 853}
        /\ ret = Ok(6)
        /\ RepeatedProduct(11, 6, 21) = 1
        /\ \A P \in 1..5 : RepeatedProduct(11, P, 21) # 1

\* C18 witness: the finder has returned 6 for 11^x mod 21 after two zero
\* measurements.
C18_Witness ==
    /\ number_to_factor = 21
    /\ guess = 11
    /\ pc = "period_returned"
    /\ ret = Ok(6)
    /\ zero_total = 2

\* C20 as stated: on number_to_factor 15, with every measurement an ideal
\* outcome for the guess being tried, the pair run_shor returns is 3 and 5,
\* in either order.
C20_FifteenGivesThreeAndFive ==
    (number_to_factor = 15 /\ pc = "done") =>
        factors \in {<<3, 5>>, <<5, 3>>}

\* C20, what does hold: on number_to_factor 15, with every measurement an
\* ideal outcome for the guess being tried, run_shor returns 3 and 5, in either
\* order, in the iteration in which the period finder returns a period for
\* one of the guesses 4, 7, 8, 11 and 13; it returns (-1, -1) when the
\* finder has aborted with -1 for each of them (14 never gives factors);
\* and it returns nothing else.
C20_FifteenGivesThreeAndFiveUnlessEveryGuessAborts ==
    /\ [](number_to_factor = 15 =>
            /\ pc = "done" =>
                  factors \in {<<3, 5>>, <<5, 3>>, <<-1, -1>>}
            /\ (pc = "done" /\ factors = <<-1, -1>>) => guess = 15
            /\ (pc = "period_returned" /\ ret # Ok(-1)) =>
                  /\ guess \in {4, 7, 8, 11, 13, 14}
                  /\ RepeatedProduct(guess, ret.val, 15) = 1)
    /\ [][(/\ number_to_factor = 15
           /\ pc = "period_returned") =>
              IF ret # Ok(-1) /\ guess # 14
              THEN pc' = "done" /\ factors' \in {<<3, 5>>, <<5, 3>>}
              ELSE pc' = "guess_loop" /\ guess' = guess + 1]_vars

\* C20, the intended case: run_shor has returned (3, 5) for 15 from the
\* guess 11, after the period finder had aborted for the guesses before it
\* and then returned 2.
C20_Witness ==
    /\ number_to_factor = 15
    /\ pc = "done"
    /\ guess = 11
    /\ period = 2
    /\ factors = <<3, 5>>

(***************************************************************************)
(* Further claims about the modular arithmetic library (SpecMath).         *)
(***************************************************************************)

\* C21: for every pair (a, modulus) whose gcd, as extended_gcd's result
\* gives it, is not 1 (a = 0 with modulus > 1 and a = modulus = 0
\* included), inverse_mod(a, modulus) raises the "must be co-prime"
\* ValueError and returns no value.
C21_NotCoprimeRaises ==
    (/\ fn = "inverse_mod"
     /\ \/ GreatestCommonDivisor(args[1], args[2]) # 1
        \/ LET uv == extended_gcd(args[1], args[2])
           IN  uv[1] * args[1] + uv[2] * args[2] # 1) =>
        /\ ret.status = "ValueError: must be co-prime"
        /\ ret.val = <<>>

\* C21 witness: inverse_mod(0, modulus) with a modulus above 1 has raised.
C21_Witness ==
    /\ fn = "inverse_mod" /\ pc = "returned"
    /\ args[1] = 0 /\ args[2] > 1
    /\ ret.status = "ValueError: must be co-prime"

\* C22: get_modulus_residue(value, modulus) raises the "must be positive"
\* ValueError for every modulus <= 0, whatever the value; for every modulus
\* > 0 and every value, negative ones included, it returns the r with
\* 0 <= r <= modulus - 1 for which value - r is a multiple of the modulus.
C22_ResidueOrInvalidModulus ==
    fn = "get_modulus_residue" =>
        IF args[2] <= 0
        THEN /\ ret.status = "ValueError: modulus must be positive"
             /\ ret.val = <<>>
        ELSE /\ ret.status = "ok"
             /\ ret.val \in 0..(args[2] - 1)
             /\ \E multiple \in (0 - MaxArg - 1)..MaxArg :
                   args[1] - ret.val = multiple * args[2]

\* C22 witness: the residue of a negative value that is no multiple of the
\* modulus has been returned.
C22_Witness ==
    /\ fn = "get_modulus_residue" /\ pc = "returned"
    /\ args[1] < 0 /\ args[2] > 1
    /\ ret.status = "ok"
    /\ ret.val > 0

\* C23: for every fraction p/q with p >= 0 and q > 0 and every threshold
\* T >= 0, the pair (n, d) that find_continued_fraction_convergent(p, q, T)
\* returns is irreducible: gcd(n, d) = 1.  (For T = 0 the pair is (1, 0),
\* whose gcd is 1.)
C23_ConvergentIsIrreducible ==
    fn = "find_continued_fraction_convergent" =>
        /\ GreatestCommonDivisor(ret.val[1], ret.val[2]) = 1
        /\ args[3] = 0 => ret.val = <<1, 0>>

\* C23 witness: for a fraction given with a common factor in numerator and
\* denominator the exact value was returned in lowest terms.
C23_Witness ==
    /\ fn = "find_continued_fraction_convergent" /\ pc = "returned"
    /\ GreatestCommonDivisor(args[1], args[2]) > 1
    /\ args[1] % args[2] # 0
    /\ ret.val[1] * args[2] = ret.val[2] * args[1]
    /\ ret.val[2] > 1

(***************************************************************************)
(* Further claims about the GF(2) library (SpecMatrix) and Simon's driver  *)
(* (SpecSimon).                                                            *)
(***************************************************************************)

\* C24: convert_to_reduced_row_echelon_form leaves the matrix in reduced
\* row-echelon form: in every pivot column the pivot is the only non-zero
\* entry, the entries above it being 0 as well as those below it.
C24_PivotIsOnlyEntryOfItsColumn ==
    pc = "reduced" =>
        \A r \in 1..Len(valid_inputs) :
            PivotColumn(valid_inputs[r]) # 0 =>
                \A r2 \in 1..Len(valid_inputs) :
                    r2 # r => ~ valid_inputs[r2][PivotColumn(valid_inputs[r])]

\* ---------------------------------------------------------------------
\* Further claims about run_shor (SpecShor)
\* ---------------------------------------------------------------------

\* What the loop body of run_shor does with the period the finder returned
\* for a guess, stated from arithmetic alone: the iteration is futile when
\* the search was aborted, the period is odd, the half power is 1 or
\* number - 1, or the two greatest common divisors fail the sanity check.
HalfPower(number, base, p) == RepeatedProduct(base, p \div 2, number)

FutilePeriod(number, base, p) ==
    \/ p = -1
    \/ p % 2 = 1
    \/ HalfPower(number, base, p) \in {1, number - 1}
    \/ LET a == GreatestCommonDivisor(number, HalfPower(number, base, p) + 1)
           b == GreatestCommonDivisor(number, HalfPower(number, base, p) - 1)
       IN  a < 2 \/ a > number \/ b < 2 \/ b > number \/ a * b # number

\* C25: for an odd number run_shor starts with the guess 3 and moves from
\* a guess only to the next one, so the guesses are tried in increasing
\* order and each at most once; a guess that shares a factor with the
\* number is passed over without a call of the period finder; an aborted
\* search, an odd period, a half power of 1 or number - 1 and a failed
\* sanity check all move the run on to the next guess and never end it;
\* and (-1, -1) is returned only once the guess has run past number - 1.
C25_GuessesInOrderAndFailuresContinue ==
    /\ [][pc = "start" /\ number_to_factor % 2 = 1
             => pc' = "guess_loop" /\ guess' = 3 /\ args' = args]_vars
    /\ [][pc = "guess_loop" /\ guess < number_to_factor
             => IF GreatestCommonDivisor(number_to_factor, guess) # 1
                THEN /\ args' = args
                     /\ pc' = "guess_loop"
                     /\ guess' = guess + 1
                ELSE /\ args' = <<number_to_factor, guess>>
                     /\ IF FutilePeriod(number_to_factor, guess, period')
                        THEN pc' = "guess_loop" /\ guess' = guess + 1
                        ELSE /\ pc' = "done"
                             /\ guess' = guess
                             /\ factors' # <<-1, -1>>]_vars
    /\ [](number_to_factor % 2 = 1 /\ factors = <<-1, -1>>
             => guess = number_to_factor)
    /\ [](pc = "guess_loop" => guess \in 3..number_to_factor)

\* 15 with the guess 7 and the period 2: 7 + 1 and 7 - 1 share only 3 with
\* 15, the sanity check fails, and the run is at the guess 8.
C25_Witness ==
    /\ pc = "guess_loop"
    /\ number_to_factor = 15
    /\ guess = 8
    /\ period = 2
    /\ args = <<15, 7>>


\* ---------------------------------------------------------------------
\* Claims about circuit construction (SpecAncilla, SpecModExp)
\* ---------------------------------------------------------------------

\* C27: in a construction pass whose helper calls share one ancilla cache,
\* no key has a register created for it twice, and the register the cache
\* holds under a key is the first one created for it: an entry, once set,
\* is reused by every later call and never replaced.
C27_EachPurposeIsAllocatedOnce ==
    /\ \A a, b \in 1..Len(allocations) :
          a # b => allocations[a].key # allocations[b].key
    /\ \A key \in DOMAIN ancilla_cache :
          /\ allocations[ancilla_cache[key].id].key = key
          /\ \A earlier \in 1..(ancilla_cache[key].id - 1) :
                allocations[earlier].key # key

\* The exponent a basis state of the input register stands for, its bits
\* read most significant first.
RECURSIVE ExponentOf(_)
ExponentOf(bits) ==
    IF bits = <<>> THEN 0
    ELSE 2 * ExponentOf(SubSeq(bits, 1, Len(bits) - 1))
         + (IF bits[Len(bits)] THEN 1 ELSE 0)

\* The product modulo b, starting from 1, of the constants of exactly the
\* first `upto` input qubits whose bit is 1.
RECURSIVE ProductOfSelectedConstants(_, _, _, _)
ProductOfSelectedConstants(a, b, bits, upto) ==
    IF upto = 0 THEN 1
    ELSE LET earlier == ProductOfSelectedConstants(a, b, bits, upto - 1)
         IN  IF bits[upto]
             THEN (earlier * modular_exponentiation_constant(a, b, Len(bits), upto - 1)) % b
             ELSE earlier

\* C26: for every base, modulus >= 2 and exponent X given by its bits, most
\* significant first, the product modulo the modulus of the constants that
\* modular_exponentiation attaches to the input qubits whose bit is 1 is
\* base^X mod modulus; it is what the output register holds for the basis
\* state X once every multiplication has been appended.
C26_SelectedConstantsMultiplyToPower ==
    pc \in {"exponentiating", "built", "raised"} =>
        /\ ProductOfSelectedConstants(guess, number_to_factor, input_bits, input_size)
             = RepeatedProduct(guess, ExponentOf(input_bits), number_to_factor)
        /\ pc = "built" =>
             output = RepeatedProduct(guess, ExponentOf(input_bits), number_to_factor)

\* 3^5 mod 7 = 5, built from the constants 3^4 mod 7 = 4 and 3^1 mod 7 = 3.
C26_Witness ==
    /\ pc = "built"
    /\ number_to_factor = 7
    /\ guess = 3
    /\ input_bits = <<TRUE, FALSE, TRUE>>
    /\ output = 5

\* C30: for a number >= 3 and a guess coprime to it, every constant that
\* modular_exponentiation hands to controlled_modular_multiply lies in
\* 1..number - 1 and is coprime to the number, and the call does not end
\* with inverse_mod's not-coprime error.
C30_ConstantsAreInvertible ==
    /\ pc \in {"exponentiating", "built", "raised"}
    /\ number_to_factor >= 3
    /\ GreatestCommonDivisor(guess, number_to_factor) = 1
    => /\ \A index \in 0..input_size - 1 :
            LET constant == modular_exponentiation_constant(guess, number_to_factor, input_size, index)
            IN  /\ constant \in 1..number_to_factor - 1
                /\ GreatestCommonDivisor(constant, number_to_factor) = 1
       /\ args # <<>> =>
            /\ args[1] \in 1..number_to_factor - 1
            /\ GreatestCommonDivisor(args[1], number_to_factor) = 1
            /\ ret.status # "ValueError: must be co-prime"

\* 2 and 9: the constants 2^8, 2^4, 2^2, 2^1 mod 9 = 4, 7, 4, 2 have all
\* been inverted.
C30_Witness ==
    /\ pc = "built"
    /\ number_to_factor = 9
    /\ guess = 2
    /\ input_size = 4
    /\ args = <<2, 9>>
    /\ ret.status = "ok"

\* ---------------------------------------------------------------------
\* Claim about matrices built by check_linear_independence (SpecCollect)
\* ---------------------------------------------------------------------

\* No XOR of one or more rows of the matrix is the zero row.
LinearlyIndependent(matrix, width) ==
    \A indices \in SUBSET (1..Len(matrix)) :
        indices # {} => ~ IsZeroRow(XorOfRows(matrix, indices, width))

\* The pivot of every row but the first lies strictly to the right of the
\* pivot of the row above.
PivotsStrictlyIncrease(matrix) ==
    \A r \in 2..Len(matrix) :
        PivotColumn(matrix[r - 1]) < PivotColumn(matrix[r])

\* C28: a matrix built from the empty list by check_linear_independence
\* calls with candidates of input_size bits has only non-zero rows, which
\* are linearly independent and in echelon form with strictly increasing
\* pivot columns, and at most input_size of them; while Simon's driver is
\* in its loop the matrix has at most input_size - 1 rows.
C28_CollectedRowsAreIndependentEchelon ==
    /\ pc \in {"collecting", "loop", "found", "failed"} =>
          /\ \A r \in 1..Len(valid_inputs) : ~ IsZeroRow(valid_inputs[r])
          /\ LinearlyIndependent(valid_inputs, input_size)
          /\ InEchelonForm(valid_inputs)
          /\ PivotsStrictlyIncrease(valid_inputs)
          /\ Len(valid_inputs) <= input_size
    /\ pc \in {"loop", "found", "failed"} =>
          Len(valid_inputs) <= input_size - 1

\* Three candidates of three bits have been accepted by the library, the
\* last call being one that rejected its candidate.
C28_Witness ==
    /\ pc = "collecting"
    /\ input_size = 3
    /\ Len(valid_inputs) = 3
    /\ ret = Ok(FALSE)

\* ---------------------------------------------------------------------
\* Claim about the period finder under a fair oracle (SpecPeriodFair)
\* ---------------------------------------------------------------------

\* C29: with a measurement oracle that is fair over the ideal outcomes,
\* find_period_of_modular_exponentiation eventually returns, and what it
\* returns is -1 or a period p with guess^p mod number_to_factor = 1.
C29_FairSearchTerminates ==
    <>(/\ pc = "period_returned"
       /\ \/ ret = Ok(-1)
          \/ /\ ret.status = "ok"
             /\ ret.val >= 1
             /\ RepeatedProduct(guess, ret.val, number_to_factor) = 1)

\* 7^x mod 15 has the period 4, found after two zero measurements.
C29_Witness ==
    /\ pc = "period_returned"
    /\ number_to_factor = 15
    /\ guess = 7
    /\ ret = Ok(4)
    /\ number_of_zero_measurements = 2

=============================================================================
